---- MODULE Spec2Model ----
(***************************************************************************)
(* AutoHeal-Nexus: the predictive repair agent                             *)
(* (src/scripts/predictive_repair_agent.py) as a state machine.            *)
(*                                                                         *)
(* Number encoding.  The metrics are floats; the model keeps them exact:   *)
(*   - a ratio metric (cpu, memory, disk, error rate, response time) is an *)
(*     integer number of tenths (7 stands for 0.7);                        *)
(*   - a reward is an integer number of tenths (-100 stands for -10.0);    *)
(*   - a Q-value is an integer number of QUnit-ths of a reward tenth, so   *)
(*     that the division by 10 of the learning rate 0.1 stays exact for    *)
(*     MaxUpdates successive updates;                                      *)
(*   - NaN and PosInf are two values outside the finite range, which a     *)
(*     Prometheus query can return ("NaN", "+Inf" parse with float()).     *)
(***************************************************************************)
EXTENDS Integers, Sequences, FiniteSets, TLC

VARIABLES
    pc,                 \* position of the process in __init__ / run
    failure_predictor,  \* self.failure_predictor
    anomaly_detector,   \* self.anomaly_detector
    scaler,             \* self.scaler
    q_table,            \* self.q_table: function on the (state, action) pairs seen
    epsilon,            \* self.epsilon, in hundredths
    metrics_history,    \* self.metrics_history: deque(maxlen)
    n_updates,          \* number of update_q_value calls so far
    call,               \* the arguments and the result of the last method
                        \* call; in the specifications of the companion
                        \* scripts, the fields of the script that runs
    disk,               \* the artifacts under self.model_path
    metrics,            \* run: the list collect_metrics returned in this tick
    training,           \* train_models: outcome, X and y of the call of this tick
    env,                \* the monitored services and the run so far: restart
                        \* counts, clock, ticks, tick the process started
                        \* after, events counted against the bounds, errors
                        \* the handler of run caught
    appended,           \* every snapshot this process appended to metrics_history
    since_train,        \* snapshots appended since train_models was last called
    since_flush,        \* snapshots appended since run last called save_models
    predictions,        \* run: the predictions of this tick not yet looked at
    anomalies,          \* run: the anomalies of this tick not yet handled
    executed,           \* the actions handed to execute_action in this tick,
                        \* with the method that handed each over
    repair_history      \* self.repair_history

vars == <<pc, failure_predictor, anomaly_detector, scaler, q_table, epsilon,
          metrics_history, n_updates, call, disk, metrics, training, env,
          appended, since_train, since_flush, predictions, anomalies,
          executed, repair_history>>

\* the variables of the control loop that the policy and the reward alone leave
loopVars == <<disk, metrics, training, env, appended, since_train, since_flush,
              predictions, anomalies, executed, repair_history>>

-----------------------------------------------------------------------------
(* Values *)

\* Python's None (a record, so that it compares with the objects it stands in for)
None == [none |-> TRUE]

NaN == 0 - 1
PosInf == 1000000

IsFinite(x) == x # NaN /\ x # PosInf

\* self.actions, in the order of the list
actions == <<"restart", "scale_up", "scale_down", "clear_cache",
             "optimize_config", "rollback", "no_action">>

ActionSet == {actions[i] : i \in 1..Len(actions)}

\* the services collect_metrics iterates over (seven in the source)
services == <<"dashboard", "redis">>

ServiceSet == {services[i] : i \in 1..Len(services)}

HealthSet == {"healthy", "unhealthy", "unknown", "down"}

\* a ServiceMetrics instance
Metric(ts, svc, cpu, mem, dsk, rc, health, resp, err) ==
    [timestamp |-> ts, service |-> svc, cpu_usage |-> cpu, memory_usage |-> mem,
     disk_usage |-> dsk, network_errors |-> 0, restart_count |-> rc,
     health_status |-> health, response_time |-> resp, error_rate |-> err,
     request_rate |-> 0]

-----------------------------------------------------------------------------
(* Reinforcement learning: state key, policy, update, reward *)

\* learning_rate = 0.1 = LrNum / LrDen
LrNum == 1
LrDen == 10

\* at most MaxUpdates updates are applied to the Q-table in one behaviour
MaxUpdates == 2

RECURSIVE Pow(_, _)
Pow(b, n) == IF n = 0 THEN 1 ELSE b * Pow(b, n - 1)

\* Q-values are counted in units of 1/QUnit of a reward tenth
QUnit == Pow(LrDen, MaxUpdates)

Abs(x) == IF x < 0 THEN 0 - x ELSE x

\* get_state with the cpu and memory bounds 0.7 and 0.3 taken as inclusive
get_state_inclusive(metric) ==
    LET cpu_state == IF metric.cpu_usage >= 7 THEN "high"
                     ELSE IF metric.cpu_usage >= 3 THEN "medium" ELSE "low"
        mem_state == IF metric.memory_usage >= 7 THEN "high"
                     ELSE IF metric.memory_usage >= 3 THEN "medium" ELSE "low"
        health_state == IF metric.health_status = "unhealthy" THEN "unhealthy"
                        ELSE "healthy"
    IN metric.service \o "_" \o cpu_state \o "_" \o mem_state
                      \o "_" \o health_state

\* get_state: the discretised state of a snapshot, the f-string
\* "{service}_{cpu_state}_{mem_state}_{health_state}"; a comparison with NaN
\* is false, so a NaN usage is "low"
get_state(metric) ==
    LET cpu_state == IF metric.cpu_usage > 7 THEN "high"
                     ELSE IF metric.cpu_usage > 3 THEN "medium" ELSE "low"
        mem_state == IF metric.memory_usage > 7 THEN "high"
                     ELSE IF metric.memory_usage > 3 THEN "medium" ELSE "low"
        health_state == IF metric.health_status = "unhealthy" THEN "unhealthy"
                        ELSE "healthy"
    IN metric.service \o "_" \o cpu_state \o "_" \o mem_state
                      \o "_" \o health_state

\* self.q_table.get((state, action), 0.0)
QGet(q, state, action) ==
    IF <<state, action>> \in DOMAIN q THEN q[<<state, action>>] ELSE 0

\* MaxScan with the comparison of a scan that lets a later equal key win
RECURSIVE MaxScanLastWins(_, _, _, _)
MaxScanLastWins(q, state, i, best) ==
    IF i > Len(actions) THEN best
    ELSE IF QGet(q, state, actions[i]) >= QGet(q, state, best)
         THEN MaxScanLastWins(q, state, i + 1, actions[i])
         ELSE MaxScanLastWins(q, state, i + 1, best)

\* max(q_values, key=q_values.get): the scan of Python's max over the dict
\* in insertion order; a later key replaces the best only when strictly greater
RECURSIVE MaxScan(_, _, _, _)
MaxScan(q, state, i, best) ==
    IF i > Len(actions) THEN best
    ELSE IF QGet(q, state, actions[i]) > QGet(q, state, best)
         THEN MaxScan(q, state, i + 1, actions[i])
         ELSE MaxScan(q, state, i + 1, best)

\* the exploitation branch of select_action
Greedy(q, state) == MaxScan(q, state, 2, actions[1])

\* np.random.random() < self.epsilon, u and eps in hundredths
Explores(u, eps) == u < eps

\* select_action: the set of actions the call can return for the draw u
select_action(q, eps, state, u) ==
    IF Explores(u, eps) THEN ActionSet ELSE {Greedy(q, state)}

\* update_q_value with a learning rate of 2, outside (0, 1]
NewQOvershoot(current_q, reward) ==
    current_q + (2 * LrDen * (reward * QUnit - current_q)) \div LrDen

\* new_q of update_q_value
NewQ(current_q, reward) ==
    current_q + (LrNum * (reward * QUnit - current_q)) \div LrDen

\* discount_factor = 0.95 = GammaNum / GammaDen (set in __init__, unused by the update)
GammaNum == 95
GammaDen == 100

\* update_q_value with the bootstrapped term gamma * max Q(s, a') of full Q-learning
update_q_value_bootstrapped(q, state, action, reward) ==
    LET key == <<state, action>>
        current_q == QGet(q, state, action)
        best == QGet(q, state, Greedy(q, state))
        new_q == current_q
                 + (LrNum * (reward * QUnit + (GammaNum * best) \div GammaDen
                             - current_q)) \div LrDen
    IN [k \in DOMAIN q \cup {key} |-> IF k = key THEN new_q ELSE q[k]]

\* update_q_value that also decays every other entry by a tenth
update_q_value_decaying(q, state, action, reward) ==
    LET key == <<state, action>>
        new_q == NewQ(QGet(q, state, action), reward)
    IN [k \in DOMAIN q \cup {key} |->
           IF k = key THEN new_q ELSE (9 * q[k]) \div 10]

\* update_q_value: the Q-table after the call
update_q_value(q, state, action, reward) ==
    LET key == <<state, action>>
        new_q == NewQ(QGet(q, state, action), reward)
    IN [k \in DOMAIN q \cup {key} |-> IF k = key THEN new_q ELSE q[k]]

\* the metric terms with the penalties applied to an unchanged cpu or memory too
RewardDeltaPenaliseUnchanged(before, after) ==
      (IF after.cpu_usage < before.cpu_usage
            THEN 5 * (before.cpu_usage - after.cpu_usage) ELSE 0)
    + (IF after.memory_usage < before.memory_usage
            THEN 5 * (before.memory_usage - after.memory_usage) ELSE 0)
    + (IF after.error_rate < before.error_rate
            THEN 10 * (before.error_rate - after.error_rate) ELSE 0)
    + (IF after.response_time < before.response_time
            THEN 3 * (before.response_time - after.response_time) ELSE 0)
    + (IF after.health_status = "healthy" THEN 50 ELSE 0)
    - (IF after.cpu_usage >= before.cpu_usage THEN 30 ELSE 0)
    - (IF after.memory_usage >= before.memory_usage THEN 30 ELSE 0)

\* the metric terms without the reward for a lower cpu
RewardDeltaNoCpu(before, after) ==
      (IF after.memory_usage < before.memory_usage
            THEN 5 * (before.memory_usage - after.memory_usage) ELSE 0)
    + (IF after.error_rate < before.error_rate
            THEN 10 * (before.error_rate - after.error_rate) ELSE 0)
    + (IF after.response_time < before.response_time
            THEN 3 * (before.response_time - after.response_time) ELSE 0)
    + (IF after.health_status = "healthy" THEN 50 ELSE 0)
    - (IF after.cpu_usage > before.cpu_usage THEN 30 ELSE 0)
    - (IF after.memory_usage > before.memory_usage THEN 30 ELSE 0)

\* the metric terms of calculate_reward, in tenths
RewardDelta(before, after) ==
      (IF after.cpu_usage < before.cpu_usage
            THEN 5 * (before.cpu_usage - after.cpu_usage) ELSE 0)
    + (IF after.memory_usage < before.memory_usage
            THEN 5 * (before.memory_usage - after.memory_usage) ELSE 0)
    + (IF after.error_rate < before.error_rate
            THEN 10 * (before.error_rate - after.error_rate) ELSE 0)
    + (IF after.response_time < before.response_time
            THEN 3 * (before.response_time - after.response_time) ELSE 0)
    + (IF after.health_status = "healthy" THEN 50 ELSE 0)
    - (IF after.cpu_usage > before.cpu_usage THEN 30 ELSE 0)
    - (IF after.memory_usage > before.memory_usage THEN 30 ELSE 0)

\* calculate_reward without the test of the success flag
calculate_reward_ignoring_success(before, after, success) ==
    IF after = None THEN 0 ELSE RewardDelta(before, after)

\* calculate_reward testing the absent sample before the success flag
calculate_reward_after_first(before, after, success) ==
    IF after = None THEN 0
    ELSE IF ~success THEN 0 - 100
    ELSE RewardDelta(before, after)

\* calculate_reward scoring an absent sample like a failed action
calculate_reward_absent_penalised(before, after, success) ==
    IF ~success \/ after = None THEN 0 - 100
    ELSE RewardDelta(before, after)

\* calculate_reward, in tenths
calculate_reward(before, after, success) ==
    IF ~success THEN 0 - 100
    ELSE IF after = None THEN 0
    ELSE RewardDelta(before, after)

-----------------------------------------------------------------------------
(* The policy engine on its own: select_action and update_q_value applied  *)
(* to Q-tables as load_models can restore them.                            *)

NoCall == [fn |-> "none"]

NoTraining == [result |-> "none"]

\* no artifact under the model path
Absent == [absent |-> TRUE]

EmptyDisk == [failure_predictor |-> Absent, anomaly_detector |-> Absent,
              scaler |-> Absent, q_table |-> Absent]

\* the state of the loop variables before run has done anything
LoopIdle ==
    /\ metrics = <<>>
    /\ training = NoTraining
    /\ env = [restarts |-> [s \in ServiceSet |-> 0], now |-> 0, ticks |-> 0,
              boot |-> 0, faults |-> 0, errors |-> 0]
    /\ appended = <<>>
    /\ since_train = 0
    /\ since_flush = 0
    /\ predictions = <<>>
    /\ anomalies = <<>>
    /\ executed = <<>>
    /\ repair_history = <<>>

EmptyQ == [k \in {} |-> 0]

\* the snapshots the policy and the reward are exercised on
CpuVals == {2, 9}
MemVals == {2, 9}
ErrVals == {0, 5}
RespVals == {1, 20}

SampleMetrics ==
    {Metric(0, "redis", cpu, mem, 5, 0, h, resp, err) :
        cpu \in CpuVals, mem \in MemVals, h \in HealthSet,
        resp \in RespVals, err \in ErrVals}

\* the discretised states select_action is asked about
PolicyStates == {get_state(Metric(0, "redis", cpu, 2, 5, 0, "healthy", 1, 0)) :
                    cpu \in CpuVals}

\* the discretised states update_q_value is called for
UpdateStates == {get_state(Metric(0, "redis", 9, 2, 5, 0, "healthy", 1, 0))}

\* rewards (tenths) observed by update_q_value
PolicyRewards == {0 - 100, 62}

\* Q-tables a previous process can have saved: whole rewards on a few keys
LoadedQ ==
    LET hi == get_state(Metric(0, "redis", 9, 2, 5, 0, "healthy", 1, 0))
        lo == get_state(Metric(0, "redis", 2, 2, 5, 0, "healthy", 1, 0))
        keys == {<<hi, "scale_up">>, <<lo, "restart">>}
    IN UNION {[d -> {(0 - 20) * QUnit, 0, 30 * QUnit}] : d \in SUBSET keys}

\* np.random.random(), in hundredths
Draws == {0, 50}

InitPolicy ==
    /\ LoopIdle
    /\ disk = EmptyDisk
    /\ pc = "policy"
    /\ failure_predictor = None
    /\ anomaly_detector = None
    /\ scaler = None
    /\ q_table \in LoadedQ
    /\ epsilon \in {0, 10}
    /\ metrics_history = <<>>
    /\ n_updates = 0
    /\ call = NoCall

\* one call of select_action, on the Q-table reached so far
PolicySelect ==
    /\ pc = "policy"
    /\ pc' = "selected"
    /\ \E state \in PolicyStates, u \in Draws :
         \E a \in select_action(q_table, epsilon, state, u) :
            call' = [fn |-> "select_action", state |-> state, draw |-> u,
                     result |-> a]
    /\ UNCHANGED <<failure_predictor, anomaly_detector, scaler, q_table,
                   epsilon, metrics_history, n_updates, loopVars>>

\* one call of update_q_value
PolicyUpdate ==
    /\ pc = "policy"
    /\ n_updates < MaxUpdates
    /\ \E state \in UpdateStates, action \in ActionSet, reward \in PolicyRewards :
         /\ q_table' = update_q_value(q_table, state, action, reward)
         /\ call' = [fn |-> "update_q_value", state |-> state, action |-> action,
                     reward |-> reward, q0 |-> QGet(q_table, state, action),
                     others |-> [k \in DOMAIN q_table \ {<<state, action>>} |->
                                    q_table[k]]]
    /\ n_updates' = n_updates + 1
    /\ UNCHANGED <<pc, failure_predictor, anomaly_detector, scaler, epsilon,
                   metrics_history, loopVars>>

NextPolicy == PolicySelect \/ PolicyUpdate

SpecPolicy == InitPolicy /\ [][NextPolicy]_vars

-----------------------------------------------------------------------------
(* The model group: training, loading, saving *)

\* deque(maxlen=10000); scaled
MaxLen == 6
\* len(self.metrics_history) < 100 in train_models; scaled
MinTrain == 3
\* len(self.metrics_history) % 100 in run; scaled
RetrainEvery == 3
\* len(self.metrics_history) % 500 in run; scaled
FlushEvery == 6
\* list(self.metrics_history)[:-10] in train_models; scaled
TailExcluded == 2
\* list(self.metrics_history)[i+1:i+6] in train_models; scaled
Horizon == 1

\* the estimator objects; run is the train_models call that constructed them
StandardScaler(run, fitted) ==
    [kind |-> "StandardScaler", run |-> run, fitted |-> fitted]
RandomForestClassifier(run, fitted, classes) ==
    [kind |-> "RandomForestClassifier", run |-> run, fitted |-> fitted,
     classes |-> classes]
IsolationForest(run, fitted) ==
    [kind |-> "IsolationForest", run |-> run, fitted |-> fitted]

\* bool(obj) as `if obj` / `not obj` evaluate it: None is false, a scaler is
\* true, an ensemble answers len(self.estimators_), which raises
\* AttributeError before fit has set estimators_
Truth(obj) ==
    IF obj = None THEN "false"
    ELSE IF obj.kind = "StandardScaler" THEN "true"
    ELSE IF obj.fitted THEN "true" ELSE "raises"

\* to_features with the health flag also set for a service that is down
to_features_down_flagged(m) ==
    <<m.cpu_usage, m.memory_usage, m.disk_usage, m.network_errors,
      m.restart_count,
      IF m.health_status \in {"unhealthy", "down"} THEN 1 ELSE 0,
      m.response_time, m.error_rate, m.request_rate>>

\* ServiceMetrics.to_features
to_features(m) ==
    <<m.cpu_usage, m.memory_usage, m.disk_usage, m.network_errors,
      m.restart_count, IF m.health_status = "unhealthy" THEN 1 ELSE 0,
      m.response_time, m.error_rate, m.request_rate>>

Min(a, b) == IF a < b THEN a ELSE b
Max(a, b) == IF a > b THEN a ELSE b

\* deque.append with maxlen: the oldest element leaves a full deque
deque_append_unbounded(h, x) == Append(h, x)

deque_append(h, x) ==
    IF Len(h) >= MaxLen THEN Append(Tail(h), x) ELSE Append(h, x)

RECURSIVE deque_extend(_, _)
deque_extend(h, xs) ==
    IF xs = <<>> THEN h ELSE deque_extend(deque_append(h, Head(xs)), Tail(xs))

\* train_models: the rows that are given a label, list(history)[:-10]
TrainRows(hist) == 1..Max(0, Len(hist) - TailExcluded)

\* train_models: the label of row j (1-based): any(...) over hist[j+1 .. j+5]
TrainLabel(hist, j) ==
    IF \E k \in (j + 1)..Min(j + Horizon, Len(hist)) :
          /\ hist[k].service = hist[j].service
          /\ \/ hist[k].health_status = "unhealthy"
             \/ hist[k].restart_count > hist[j].restart_count
    THEN 1 ELSE 0

TrainX(hist) == [j \in TrainRows(hist) |-> to_features(hist[j])]
TrainY(hist) == [j \in TrainRows(hist) |-> TrainLabel(hist, j)]

HasInf(X) == \E j \in DOMAIN X : \E c \in DOMAIN X[j] : X[j][c] = PosInf
HasNaN(X) == \E j \in DOMAIN X : \E c \in DOMAIN X[j] : X[j][c] = NaN

\* the fits of train_models that can raise on X: StandardScaler.fit_transform
\* rejects an infinity and passes NaN on; whether RandomForestClassifier.fit
\* and IsolationForest.fit reject NaN depends on the scikit-learn installed
\* (the import is unpinned), so either may.  0: no fit raises.
FailPoints(X) ==
    IF HasInf(X) THEN {"scaler"}
    ELSE IF HasNaN(X) THEN {"predictor", "detector", "none"}
    ELSE {"none"}

\* train_models without the anomaly detector part
TrainedGroupNoDetector(old, run, X, y, fail) ==
    IF fail = "scaler" THEN [old EXCEPT !.scaler = StandardScaler(run, FALSE)]
    ELSE [old EXCEPT !.scaler = StandardScaler(run, TRUE),
                     !.failure_predictor =
                         RandomForestClassifier(run, fail # "predictor",
                                                {y[j] : j \in DOMAIN y})]

\* the model group after train_models, from the group before it: each member
\* is assigned a new estimator before that estimator is fitted
TrainedGroup(old, run, X, y, fail) ==
    LET classes == {y[j] : j \in DOMAIN y} IN
    IF fail = "scaler" THEN
        [old EXCEPT !.scaler = StandardScaler(run, FALSE)]
    ELSE IF fail = "predictor" THEN
        [old EXCEPT !.scaler = StandardScaler(run, TRUE),
                    !.failure_predictor = RandomForestClassifier(run, FALSE, {})]
    ELSE IF fail = "detector" THEN
        [scaler |-> StandardScaler(run, TRUE),
         failure_predictor |-> RandomForestClassifier(run, TRUE, classes),
         anomaly_detector |-> IsolationForest(run, FALSE)]
    ELSE
        [scaler |-> StandardScaler(run, TRUE),
         failure_predictor |-> RandomForestClassifier(run, TRUE, classes),
         anomaly_detector |-> IsolationForest(run, TRUE)]

Group == [scaler |-> scaler, failure_predictor |-> failure_predictor,
          anomaly_detector |-> anomaly_detector]

\* a file joblib.load cannot read
Corrupt == [corrupt |-> TRUE]

\* the file joblib.dump writes for the Q-table dict
Pickled(q) == [kind |-> "dict", items |-> q]

\* load_models: the four `if os.path.exists: load` in order; a load that
\* raises ends the method with the later members not loaded
LoadedState(d) ==
    LET bad1 == d.failure_predictor = Corrupt
        bad2 == bad1 \/ d.anomaly_detector = Corrupt
        bad3 == bad2 \/ d.scaler = Corrupt
        bad4 == bad3 \/ d.q_table = Corrupt
        get(bad, f, dflt) == IF bad \/ f = Absent THEN dflt ELSE f
    IN [failure_predictor |-> get(bad1, d.failure_predictor, None),
        anomaly_detector |-> get(bad2, d.anomaly_detector, None),
        scaler |-> get(bad3, d.scaler, None),
        q_table |-> IF bad4 \/ d.q_table = Absent THEN EmptyQ
                    ELSE d.q_table.items]

\* the members save_models writes, in its order
Members == <<"failure_predictor", "anomaly_detector", "scaler", "q_table">>

\* `if self.<member>:` of save_models; an empty dict is false
MemberTruth(name, obj) ==
    IF name = "q_table" THEN (IF DOMAIN obj = {} THEN "false" ELSE "true")
    ELSE Truth(obj)

\* save_models from its i-th `if member: joblib.dump(...)` on: a truth test
\* that raises ends the method; so does the dump named by fail, which leaves
\* a file that cannot be read back
RECURSIVE SaveFrom(_, _, _, _)
SaveFrom(d, objs, i, fail) ==
    IF i > Len(Members) THEN d
    ELSE LET name == Members[i]
             t == MemberTruth(name, objs[name])
         IN IF t = "raises" THEN d
            ELSE IF t = "false" THEN SaveFrom(d, objs, i + 1, fail)
            ELSE IF fail = name THEN [d EXCEPT ![name] = Corrupt]
            ELSE SaveFrom([d EXCEPT ![name] = IF name = "q_table"
                                              THEN Pickled(objs[name])
                                              ELSE objs[name]],
                          objs, i + 1, fail)

\* save_models
SavedDisk(d, objs, fail) == SaveFrom(d, objs, 1, fail)

-----------------------------------------------------------------------------
(* The control loop *)

\* ticks of run in one behaviour
MaxTicks == 4
\* events in one behaviour that are not part of a quiet run: stored samples
\* that are not a plain healthy reading, failure probabilities above 0.7,
\* flagged anomalies, explorations of select_action, dumps that fail,
\* interrupts of the error handler
MaxFaults == 2

\* what collect_metrics can meet for one service: a plain reading, an
\* unhealthy container, a restart count that went up, a disk ratio of NaN or
\* +Inf, or a restart count of NaN (int() raises and the service is left
\* out of the list); the samples taken around an action can also meet a
\* busy cpu
Kinds == {"ok", "unhealthy", "restarted", "nan", "inf", "dropped"}

\* the ServiceMetrics collect_metrics builds for a service of the given kind
Sample(svc, kind, ts, rc) ==
    Metric(ts, svc,
           IF kind = "hot" THEN 9 ELSE 5,
           5,
           IF kind = "nan" THEN NaN ELSE IF kind = "inf" THEN PosInf ELSE 5,
           rc,
           IF kind = "unhealthy" THEN "unhealthy" ELSE "healthy",
           1, 0)

\* collect_metrics: the list for the services in order, the clock advancing
RECURSIVE Collected(_, _, _, _)
Collected(kinds, i, now, restarts) ==
    IF i > Len(services) THEN <<>>
    ELSE LET svc == services[i] IN
         IF kinds[svc] = "dropped"
         THEN Collected(kinds, i + 1, now, restarts)
         ELSE <<Sample(svc, kinds[svc], now + 1, restarts[svc])>>
              \o Collected(kinds, i + 1, now + 1, restarts)

FaultsOf(kinds) == Cardinality({s \in ServiceSet : kinds[s] # "ok"})

\* the probabilities (hundredths) predict_proba answers with
Probs == {70, 80}

\* scaler.transform(features) returns: the scaler is fitted and no feature
\* is infinite
Transforms(m) ==
    /\ scaler.fitted
    /\ \A c \in DOMAIN to_features(m) : to_features(m)[c] # PosInf

FeaturesNaN(m) == \E c \in DOMAIN to_features(m) : to_features(m)[c] = NaN

\* predict_failures, one metric: the lists (empty or one prediction) the body
\* of the loop can add (draw is the number select_action drew for it); predict_proba(...)[0][1] exists only for a forest
\* fitted on both classes, and any exception leaves the metric out
PredictionsOf(m) ==
    IF ~Transforms(m) \/ failure_predictor.classes # {0, 1} THEN {<<>>}
    ELSE LET made == UNION {{<<[service |-> m.service, probability |-> p,
                                 recommended_action |-> a,
                                 confidence |-> Max(p, 100 - p),
                                 draw |-> u]>> :
                                p \in Probs,
                                a \in select_action(q_table, epsilon,
                                                    get_state(m), u)} :
                            u \in Draws}
         IN IF FeaturesNaN(m) THEN made \cup {<<>>} ELSE made

RECURSIVE AllPredictions(_)
AllPredictions(ms) ==
    IF ms = <<>> THEN {<<>>}
    ELSE {h \o t : h \in PredictionsOf(Head(ms)), t \in AllPredictions(Tail(ms))}

\* the test of run with 0.7 itself acted on
ActedOnInclusive(prediction) == prediction.probability >= 70

\* run: `if prediction.probability > 0.7`
ActedOn(prediction) == prediction.probability > 70

\* the predictions of a list that run acts on
HighOnes(l) == {i \in 1..Len(l) : ActedOn(l[i])}

\* the predictions of a list whose action came from the exploration branch
ExploredOnes(l) == {i \in 1..Len(l) : Explores(l[i].draw, epsilon)}

\* the events of a list of predictions that count against MaxFaults
EventsOf(l) == Cardinality(HighOnes(l)) + Cardinality(ExploredOnes(l))

\* predict_failures without its test of the classifier and the scaler
predict_failures_unguarded(ms, budget) ==
    IF ms = <<>> THEN {<<>>}
    ELSE {<<[service |-> ms[1].service, probability |-> 70,
            recommended_action |-> Greedy(q_table, get_state(ms[1])),
            confidence |-> 70, draw |-> 50]>>}

\* predict_failures: the lists it can return within the budget of events
predict_failures(ms, budget) ==
    IF Truth(failure_predictor) = "false" \/ scaler = None THEN {<<>>}
    ELSE {l \in AllPredictions(ms) : EventsOf(l) <= budget}

\* detect_anomalies, one metric: flagged (-1) or not; an exception leaves it out
AnomaliesOf(m) == IF ~Transforms(m) THEN {<<>>} ELSE {<<>>, <<m>>}

RECURSIVE AllAnomalies(_)
AllAnomalies(ms) ==
    IF ms = <<>> THEN {<<>>}
    ELSE {h \o t : h \in AnomaliesOf(Head(ms)), t \in AllAnomalies(Tail(ms))}

\* detect_anomalies: the lists it can return, at most budget metrics flagged
detect_anomalies(ms, budget) ==
    IF Truth(anomaly_detector) = "false" \/ scaler = None THEN {<<>>}
    ELSE {l \in AllAnomalies(ms) : Len(l) <= budget}

\* execute_action: True, False, or an exception other than
\* CalledProcessError (docker-compose cannot be started), which it lets through
execute_action(service, action) ==
    IF action \in {"restart", "scale_up", "scale_down"}
        THEN {"true", "false", "raises"}
    ELSE IF action = "clear_cache"
        THEN (IF service = "redis" THEN {"true", "false", "raises"} ELSE {"false"})
    ELSE {"true"}

\* the Q-table left by an earlier process that restarted redis once, the
\* executor reporting failure: -10 weighted by the learning rate
PriorQ ==
    LET key == <<get_state(Sample("redis", "ok", 0, 0)), "restart">>
    IN [k \in {key} |-> NewQ(0, 0 - 100)]

\* the artifacts an earlier process left under the model path: a group
\* trained on a window holding both labels (run 0), and its Q-table
PriorRunDisk ==
    [failure_predictor |-> RandomForestClassifier(0, TRUE, {0, 1}),
     anomaly_detector |-> IsolationForest(0, TRUE),
     scaler |-> StandardScaler(0, TRUE),
     q_table |-> Pickled(PriorQ)]

\* what the model path holds when the first process of a behaviour starts
StartDisks == {EmptyDisk, PriorRunDisk}

Init ==
    /\ pc = "init"
    /\ failure_predictor = None
    /\ anomaly_detector = None
    /\ scaler = None
    /\ q_table = EmptyQ
    /\ epsilon = 10
    /\ metrics_history = <<>>
    /\ n_updates = 0
    /\ call = NoCall
    /\ LoopIdle
    /\ disk \in StartDisks

polVars == <<q_table, epsilon, n_updates, call>>
tickVars == <<metrics, predictions, anomalies, executed>>

\* __init__: load_models (load_history reads the failure list only)
LoadModels ==
    /\ pc = "init"
    /\ LET l == LoadedState(disk) IN
         /\ failure_predictor' = l.failure_predictor
         /\ anomaly_detector' = l.anomaly_detector
         /\ scaler' = l.scaler
         /\ q_table' = l.q_table
    /\ pc' = "collect"
    /\ UNCHANGED <<epsilon, metrics_history, n_updates, call, loopVars>>

\* run: metrics = self.collect_metrics(); the appends to metrics_history
CollectAndStore ==
    /\ pc = "collect"
    /\ env.ticks < MaxTicks
    /\ \E kinds \in [ServiceSet -> Kinds] :
         /\ env.faults + FaultsOf(kinds) <= MaxFaults
         /\ LET restarts == [s \in ServiceSet |->
                               env.restarts[s]
                               + (IF kinds[s] = "restarted" THEN 1 ELSE 0)]
                ms == Collected(kinds, 1, env.now, restarts)
            IN /\ metrics' = ms
               /\ metrics_history' = deque_extend(metrics_history, ms)
               /\ appended' = appended \o ms
               /\ since_train' = since_train + Len(ms)
               /\ since_flush' = since_flush + Len(ms)
               /\ env' = [env EXCEPT !.restarts = restarts,
                                      !.now = @ + Len(ms),
                                      !.ticks = @ + 1,
                                      !.faults = @ + FaultsOf(kinds)]
    /\ pc' = "predict"
    /\ UNCHANGED <<failure_predictor, anomaly_detector, scaler, polVars, disk,
                   training, predictions, anomalies, executed, repair_history>>

\* run: predictions = self.predict_failures(metrics); `not
\* self.failure_predictor` raises for an unfitted forest, and the exception
\* is caught by the handler of run
Predict ==
    /\ pc = "predict"
    /\ IF Truth(failure_predictor) = "raises"
       THEN pc' = "error" /\ UNCHANGED predictions
       ELSE /\ pc' = "act"
            /\ predictions' \in predict_failures(metrics, MaxFaults - env.faults)
    /\ env' = [env EXCEPT !.faults = @ + EventsOf(predictions')]
    /\ UNCHANGED <<failure_predictor, anomaly_detector, scaler, polVars,
                   metrics_history, disk, metrics, training, appended,
                   since_train, since_flush, anomalies, executed, repair_history>>

\* run: a prediction whose probability is not above 0.7 is passed over
PassPrediction ==
    /\ pc = "act"
    /\ predictions # <<>>
    /\ ~ActedOn(Head(predictions))
    /\ predictions' = Tail(predictions)
    /\ UNCHANGED <<pc, failure_predictor, anomaly_detector, scaler, polVars,
                   metrics_history, disk, metrics, training, env, appended,
                   since_train, since_flush, anomalies, executed, repair_history>>

\* take_preventive_action: collect_metrics returned nothing for the service
PreventiveNoMetrics ==
    /\ pc = "act"
    /\ predictions # <<>>
    /\ ActedOn(Head(predictions))
    /\ predictions' = Tail(predictions)
    /\ UNCHANGED <<pc, failure_predictor, anomaly_detector, scaler, polVars,
                   metrics_history, disk, metrics, training, env, appended,
                   since_train, since_flush, anomalies, executed, repair_history>>

\* what the samples taken inside take_preventive_action can meet
BeforeKinds == {"ok", "hot"}
AfterKinds == {"ok", "dropped"}

\* the sample collect_metrics takes of one service inside
\* take_preventive_action, and the clock after it
Resample(e, svc, kind) ==
    [metric |-> IF kind = "dropped" THEN None
                ELSE Sample(svc, kind, e.now + 1, e.restarts[svc]),
     env |-> [e EXCEPT !.now = @ + (IF kind = "dropped" THEN 0 ELSE 1)]]

\* take_preventive_action for the first prediction left, its probability
\* being above 0.7: sample, execute, sample again, reward, record, learn
TakePreventiveAction ==
    /\ pc = "act"
    /\ predictions # <<>>
    /\ ActedOn(Head(predictions))
    /\ n_updates < MaxUpdates
    /\ LET p == Head(predictions) IN
       \E kb \in BeforeKinds :
         LET b == Resample(env, p.service, kb) IN
         \E out \in execute_action(p.service, p.recommended_action) :
           /\ executed' = Append(executed,
                                 [service |-> p.service,
                                  action |-> p.recommended_action,
                                  trigger |-> "prediction"])
           /\ IF out = "raises"
              THEN /\ pc' = "error"
                   /\ env' = b.env
                   /\ UNCHANGED <<predictions, repair_history, q_table,
                                  n_updates>>
              ELSE \E ka \in AfterKinds :
                     LET a == Resample(b.env, p.service, ka)
                         success == (out = "true")
                         reward == calculate_reward(b.metric, a.metric, success)
                     IN /\ env' = a.env
                        /\ repair_history' =
                              Append(repair_history,
                                     [service |-> p.service,
                                      action |-> p.recommended_action,
                                      metrics_before |-> b.metric,
                                      metrics_after |-> a.metric,
                                      success |-> success,
                                      reward |-> reward])
                        /\ q_table' = update_q_value(q_table,
                                          get_state(b.metric),
                                          p.recommended_action, reward)
                        /\ n_updates' = n_updates + 1
                        /\ predictions' = Tail(predictions)
                        /\ pc' = "act"
    /\ UNCHANGED <<failure_predictor, anomaly_detector, scaler, epsilon, call,
                   metrics_history, disk, metrics, training, appended,
                   since_train, since_flush, anomalies>>

\* run: anomalies = self.detect_anomalies(metrics), once every prediction
\* has been looked at
Detect ==
    /\ pc = "act"
    /\ predictions = <<>>
    /\ IF Truth(anomaly_detector) = "raises"
       THEN pc' = "error" /\ UNCHANGED anomalies
       ELSE /\ pc' = "handle"
            /\ anomalies' \in detect_anomalies(metrics, MaxFaults - env.faults)
    /\ env' = [env EXCEPT !.faults = @ + Len(anomalies')]
    /\ UNCHANGED <<failure_predictor, anomaly_detector, scaler, polVars,
                   metrics_history, disk, metrics, training, appended,
                   since_train, since_flush, predictions, executed, repair_history>>

\* handle_anomaly for the first anomaly left: select an action, execute it
HandleAnomaly ==
    /\ pc = "handle"
    /\ anomalies # <<>>
    /\ LET m == Head(anomalies) IN
       \E u \in Draws :
         /\ Explores(u, epsilon) => env.faults < MaxFaults
         /\ env' = [env EXCEPT !.faults =
                        @ + (IF Explores(u, epsilon) THEN 1 ELSE 0)]
         /\ \E action \in select_action(q_table, epsilon, get_state(m), u) :
              \E out \in execute_action(m.service, action) :
                /\ executed' = Append(executed, [service |-> m.service,
                                                 action |-> action,
                                                 trigger |-> "anomaly"])
                /\ IF out = "raises"
                   THEN pc' = "error" /\ UNCHANGED anomalies
                   ELSE pc' = "handle" /\ anomalies' = Tail(anomalies)
    /\ UNCHANGED <<failure_predictor, anomaly_detector, scaler, polVars,
                   metrics_history, disk, metrics, training, appended,
                   since_train, since_flush, predictions, repair_history>>

\* run: `if len(self.metrics_history) % 100 == 0` is false
SkipTrain ==
    /\ pc = "handle"
    /\ anomalies = <<>>
    /\ Len(metrics_history) % RetrainEvery # 0
    /\ pc' = "save"
    /\ UNCHANGED <<failure_predictor, anomaly_detector, scaler, polVars,
                   metrics_history, loopVars>>

\* run: train_models()
TrainModels ==
    /\ pc = "handle"
    /\ anomalies = <<>>
    /\ Len(metrics_history) % RetrainEvery = 0
    /\ since_train' = 0
    /\ pc' = "save"
    /\ IF Len(metrics_history) < MinTrain
       THEN /\ training' = [result |-> "skipped", gap |-> since_train,
                            before |-> Group]
            /\ UNCHANGED <<failure_predictor, anomaly_detector, scaler>>
       ELSE LET X == TrainX(metrics_history)
                y == TrainY(metrics_history)
                run == env.ticks
            IN \E fail \in FailPoints(X) :
                 LET g == TrainedGroup(Group, run, X, y, fail) IN
                 /\ failure_predictor' = g.failure_predictor
                 /\ anomaly_detector' = g.anomaly_detector
                 /\ scaler' = g.scaler
                 /\ training' = [result |-> IF fail = "none" THEN "trained"
                                            ELSE "failed",
                                 gap |-> since_train, X |-> X, y |-> y,
                                 before |-> Group]
    /\ UNCHANGED <<polVars, metrics_history, disk, env, appended, since_flush,
                   tickVars, repair_history>>

\* run: `if len(self.metrics_history) % 500 == 0` is false
SkipSave ==
    /\ pc = "save"
    /\ Len(metrics_history) % FlushEvery # 0
    /\ pc' = "sleep"
    /\ UNCHANGED <<failure_predictor, anomaly_detector, scaler, polVars,
                   metrics_history, loopVars>>

Objects == [failure_predictor |-> failure_predictor,
            anomaly_detector |-> anomaly_detector,
            scaler |-> scaler, q_table |-> q_table]

\* run: save_models() (save_history writes the failure list only)
SaveModels ==
    /\ pc = "save"
    /\ Len(metrics_history) % FlushEvery = 0
    /\ \E fail \in {"none"} \cup {Members[i] : i \in 1..Len(Members)} :
         /\ fail # "none" => env.faults < MaxFaults
         /\ disk' = SavedDisk(disk, Objects, fail)
         /\ env' = [env EXCEPT !.faults =
                        @ + (IF disk' = SavedDisk(disk, Objects, "none")
                             THEN 0 ELSE 1)]
    /\ since_flush' = 0
    /\ pc' = "sleep"
    /\ UNCHANGED <<failure_predictor, anomaly_detector, scaler, polVars,
                   metrics_history, training, appended, since_train, tickVars,
                   repair_history>>

\* run: time.sleep(self.check_interval) at the end of the try block; the
\* locals of the tick are gone
Sleep ==
    /\ pc = "sleep"
    /\ pc' = "collect"
    /\ metrics' = <<>>
    /\ predictions' = <<>>
    /\ anomalies' = <<>>
    /\ executed' = <<>>
    /\ training' = NoTraining
    /\ UNCHANGED <<failure_predictor, anomaly_detector, scaler, polVars,
                   metrics_history, disk, env, appended, since_train,
                   since_flush, repair_history>>

\* a handler of run that logs the error and lets it end the loop
HandlerExit ==
    /\ pc = "error"
    /\ pc' = "aborted"
    /\ UNCHANGED <<failure_predictor, anomaly_detector, scaler, polVars,
                   metrics_history, loopVars>>

\* run: `except Exception`: the error is logged, the handler sleeps and the
\* loop goes on
HandlerSleep ==
    /\ pc = "error"
    /\ pc' = "collect"
    /\ metrics' = <<>>
    /\ predictions' = <<>>
    /\ anomalies' = <<>>
    /\ executed' = <<>>
    /\ training' = NoTraining
    /\ env' = [env EXCEPT !.errors = @ + 1]
    /\ UNCHANGED <<failure_predictor, anomaly_detector, scaler, polVars,
                   metrics_history, disk, appended, since_train, since_flush,
                   repair_history>>

\* run: KeyboardInterrupt during the sleep of the try block: save_models(),
\* save_history(), break
Interrupt ==
    /\ pc = "sleep"
    /\ \E fail \in {"none"} \cup {Members[i] : i \in 1..Len(Members)} :
         /\ fail # "none" => env.faults < MaxFaults
         /\ disk' = SavedDisk(disk, Objects, fail)
         /\ env' = [env EXCEPT !.faults =
                        @ + (IF disk' = SavedDisk(disk, Objects, "none")
                             THEN 0 ELSE 1)]
    /\ pc' = "stopped"
    /\ UNCHANGED <<failure_predictor, anomaly_detector, scaler, polVars,
                   metrics_history, training, appended, since_train,
                   since_flush, tickVars, repair_history>>

\* run: KeyboardInterrupt during the sleep of the exception handler: no
\* handler of the try statement covers it, run is left by the exception and
\* the process ends without a save
InterruptInHandler ==
    /\ pc = "error"
    /\ env.faults < MaxFaults
    /\ env' = [env EXCEPT !.faults = @ + 1]
    /\ pc' = "aborted"
    /\ UNCHANGED <<failure_predictor, anomaly_detector, scaler, polVars,
                   metrics_history, disk, training, appended, since_train,
                   since_flush, tickVars, repair_history>>

\* the next process: __init__ up to load_models; the artifacts and the
\* monitored services are what the previous process left
Restart ==
    /\ pc \in {"stopped", "aborted"}
    /\ env.ticks < MaxTicks
    /\ pc' = "init"
    /\ failure_predictor' = None
    /\ anomaly_detector' = None
    /\ scaler' = None
    /\ q_table' = EmptyQ
    /\ metrics_history' = <<>>
    /\ metrics' = <<>>
    /\ predictions' = <<>>
    /\ anomalies' = <<>>
    /\ executed' = <<>>
    /\ training' = NoTraining
    /\ appended' = <<>>
    /\ since_train' = 0
    /\ since_flush' = 0
    /\ repair_history' = <<>>
    /\ env' = [env EXCEPT !.boot = env.ticks]
    /\ UNCHANGED <<epsilon, n_updates, call, disk>>

Next ==
    \/ LoadModels
    \/ CollectAndStore
    \/ Predict
    \/ PassPrediction
    \/ PreventiveNoMetrics
    \/ TakePreventiveAction
    \/ Detect
    \/ HandleAnomaly
    \/ SkipTrain
    \/ TrainModels
    \/ SkipSave
    \/ SaveModels
    \/ Sleep
    \/ HandlerSleep
    \/ Interrupt
    \/ InterruptInHandler
    \/ Restart

Spec == Init /\ [][Next]_vars

-----------------------------------------------------------------------------
(* The reward model on its own *)

InitReward ==
    /\ LoopIdle
    /\ disk = EmptyDisk
    /\ pc = "reward"
    /\ failure_predictor = None
    /\ anomaly_detector = None
    /\ scaler = None
    /\ q_table = EmptyQ
    /\ epsilon = 10
    /\ metrics_history = <<>>
    /\ n_updates = 0
    /\ call = NoCall

\* one call of calculate_reward
RewardCall ==
    /\ pc = "reward"
    /\ pc' = "rewarded"
    /\ \E before \in SampleMetrics, after \in SampleMetrics \cup {None},
          success \in BOOLEAN :
         call' = [fn |-> "calculate_reward", before |-> before, after |-> after,
                  success |-> success,
                  result |-> calculate_reward(before, after, success)]
    /\ UNCHANGED <<failure_predictor, anomaly_detector, scaler, q_table,
                   epsilon, metrics_history, n_updates, loopVars>>

NextReward == RewardCall

SpecReward == InitReward /\ [][NextReward]_vars

-----------------------------------------------------------------------------
(* Repeated predicted-failure ticks for one service whose cpu stays high *)

\* the sample take_preventive_action collects before the action: cpu 0.9
HotSample == Sample("redis", "hot", 0, 0)

\* get_state of that sample
LearnState == get_state(HotSample)

\* the samples collected 30 s after the action: a restart is followed by a
\* lower cpu, no_action is not, any other action by either
LearnAfter(action) ==
    IF action = "restart"
        THEN {Metric(0, "redis", 8, 5, 5, 0, h, 1, 0) :
                 h \in {"healthy", "unhealthy"}}
    ELSE IF action = "no_action"
        THEN {Metric(0, "redis", 9, mem, 5, 0, "healthy", 1, 0) :
                 mem \in {5, 2}}
    ELSE {Metric(0, "redis", cpu, 5, 5, 0, "healthy", 1, 0) : cpu \in {9, 5}}

InitLearn ==
    /\ LoopIdle
    /\ disk = EmptyDisk
    /\ pc = "learn"
    /\ failure_predictor = None
    /\ anomaly_detector = None
    /\ scaler = None
    /\ q_table = EmptyQ
    /\ epsilon = 10
    /\ metrics_history = <<>>
    /\ n_updates = 0
    /\ call = NoCall

\* predict_failures: recommended_action = self.select_action(state) for the
\* service predicted to fail
LearnSelect ==
    /\ pc = "learn"
    /\ env.ticks < MaxTicks
    /\ n_updates < MaxUpdates
    /\ pc' = "learn_act"
    /\ \E u \in Draws :
         \E a \in select_action(q_table, epsilon, LearnState, u) :
            call' = [fn |-> "select_action", state |-> LearnState, draw |-> u,
                     result |-> a]
    /\ env' = [env EXCEPT !.ticks = @ + 1]
    /\ UNCHANGED <<failure_predictor, anomaly_detector, scaler, q_table,
                   epsilon, metrics_history, n_updates, disk, metrics,
                   training, appended, since_train, since_flush, predictions,
                   anomalies, executed, repair_history>>

\* take_preventive_action for the recommended action: execute, sample
\* again, reward, record, learn; an exception of the executor ends the tick
LearnAct ==
    /\ pc = "learn_act"
    /\ pc' = "learn"
    /\ call' = NoCall
    /\ \E out \in execute_action("redis", call.result) :
         /\ executed' = Append(executed, [service |-> "redis",
                                          action |-> call.result,
                                          trigger |-> "prediction"])
         /\ IF out = "raises"
            THEN UNCHANGED <<repair_history, q_table, n_updates>>
            ELSE \E after \in LearnAfter(call.result) :
                   LET success == (out = "true")
                       reward == calculate_reward(HotSample, after, success)
                   IN /\ repair_history' =
                            Append(repair_history,
                                   [service |-> "redis",
                                    action |-> call.result,
                                    metrics_before |-> HotSample,
                                    metrics_after |-> after,
                                    success |-> success,
                                    reward |-> reward])
                      /\ q_table' = update_q_value(q_table, LearnState,
                                                   call.result, reward)
                      /\ n_updates' = n_updates + 1
    /\ UNCHANGED <<failure_predictor, anomaly_detector, scaler, epsilon,
                   metrics_history, disk, metrics, training, env, appended,
                   since_train, since_flush, predictions, anomalies>>

NextLearn == LearnSelect \/ LearnAct

\* run is a `while True` loop: a tick that can be taken is taken
SpecLearn == InitLearn /\ [][NextLearn]_vars /\ WF_vars(NextLearn)

-----------------------------------------------------------------------------
(* The projections of one snapshot: state key and feature vector *)

\* usages (tenths) on both sides of the bounds 0.3 and 0.7, and the values
\* float() gives for "NaN" and "+Inf"
UsageVals == {NaN, 2, 3, 5, 7, 9, PosInf}

\* the snapshots get_state and to_features are called on; every field has
\* values of its own, and one service id ends like a bucket
SnapshotInputs ==
    {[timestamp |-> 0, service |-> svc, cpu_usage |-> cpu,
      memory_usage |-> mem, disk_usage |-> 12, network_errors |-> 13,
      restart_count |-> 14, health_status |-> h, response_time |-> 16,
      error_rate |-> 17, request_rate |-> 18] :
        svc \in {"redis", "redis_low"}, cpu \in UsageVals,
        mem \in {3, 7, 8}, h \in HealthSet}

InitSnapshot ==
    /\ LoopIdle
    /\ disk = EmptyDisk
    /\ pc = "snapshot"
    /\ failure_predictor = None
    /\ anomaly_detector = None
    /\ scaler = None
    /\ q_table = EmptyQ
    /\ epsilon = 10
    /\ metrics_history = <<>>
    /\ n_updates = 0
    /\ call = NoCall

\* one call of get_state
StateCall ==
    /\ pc = "snapshot"
    /\ pc' = "keyed"
    /\ \E m \in SnapshotInputs :
         call' = [fn |-> "get_state", metric |-> m, result |-> get_state(m)]
    /\ UNCHANGED <<failure_predictor, anomaly_detector, scaler, q_table,
                   epsilon, metrics_history, n_updates, loopVars>>

\* one call of to_features
FeaturesCall ==
    /\ pc = "snapshot"
    /\ pc' = "projected"
    /\ \E m \in SnapshotInputs :
         call' = [fn |-> "to_features", metric |-> m, result |-> to_features(m)]
    /\ UNCHANGED <<failure_predictor, anomaly_detector, scaler, q_table,
                   epsilon, metrics_history, n_updates, loopVars>>

NextSnapshot == StateCall \/ FeaturesCall

SpecSnapshot == InitSnapshot /\ [][NextSnapshot]_vars

-----------------------------------------------------------------------------
(* The history artifact: load_history and save_history *)

\* `self.failure_history[-1000:]` keeps 1000 entries; scaled
HistoryCap == 3

\* the failure lists a history file can hold, entries being 1 and 2
RECURSIVE ListsUpTo(_)
ListsUpTo(n) ==
    IF n = 0 THEN {<<>>}
    ELSE LET shorter == ListsUpTo(n - 1)
         IN shorter \cup {Append(l, e) : l \in {x \in shorter : Len(x) = n - 1},
                                         e \in {1, 2}}

\* the file json.dump writes
HistoryFile(failures) == [kind |-> "json", failures |-> failures]

\* what can be found under data_path at startup
HistoryFiles ==
    {Absent, Corrupt} \cup {HistoryFile(l) : l \in ListsUpTo(HistoryCap + 2)}

\* load_history: self.failure_history after the call
load_history(file) ==
    IF file = Absent \/ file = Corrupt THEN <<>> ELSE file.failures

\* s[:1000], the oldest entries
OldestEntries(s, n) == IF Len(s) <= n THEN s ELSE SubSeq(s, 1, n)

\* s[-1000:]
LatestEntries(s, n) ==
    IF Len(s) <= n THEN s ELSE SubSeq(s, Len(s) - n + 1, Len(s))

\* save_history: the file after the call; makedirs can raise before the file
\* is opened, and a dump that raises leaves a file that cannot be read
save_history(file, failure_history, fail) ==
    IF fail = "makedirs" THEN file
    ELSE IF fail = "dump" THEN Corrupt
    ELSE HistoryFile(LatestEntries(failure_history, HistoryCap))

InitHistory ==
    /\ LoopIdle
    /\ disk = EmptyDisk
    /\ pc = "history"
    /\ failure_predictor = None
    /\ anomaly_detector = None
    /\ scaler = None
    /\ q_table = EmptyQ
    /\ epsilon = 10
    /\ metrics_history = <<>>
    /\ n_updates = 0
    /\ call = NoCall

\* __init__: self.load_history()
LoadHistory ==
    /\ pc = "history"
    /\ pc' = "loaded"
    /\ \E file \in HistoryFiles :
         call' = [fn |-> "load_history", file |-> file,
                  failure_history |-> load_history(file)]
    /\ UNCHANGED <<failure_predictor, anomaly_detector, scaler, q_table,
                   epsilon, metrics_history, n_updates, loopVars>>

\* run: self.save_history()
SaveHistory ==
    /\ pc = "loaded"
    /\ pc' = "saved"
    /\ \E fail \in {"none", "makedirs", "dump"} :
         call' = [fn |-> "save_history", loaded |-> call.file,
                  failure_history |-> call.failure_history, raised |-> fail,
                  file |-> save_history(call.file, call.failure_history, fail)]
    /\ UNCHANGED <<failure_predictor, anomaly_detector, scaler, q_table,
                   epsilon, metrics_history, n_updates, loopVars>>

NextHistory == LoadHistory \/ SaveHistory

SpecHistory == InitHistory /\ [][NextHistory]_vars

-----------------------------------------------------------------------------
(* Two workers on one Q-table: update_q_value, then save_models *)

Workers == {1, 2}

\* how the callers of the two workers are scheduled: "shared" with nothing
\* between them, "locked" with a lock held from the read of update_q_value
\* to the end of save_models, "single" with one owner that runs the two
\* updates one after the other
Modes == {"shared", "locked", "single"}

\* update_q_value: current_q = self.q_table.get((state, action), 0.0)
ReadQ(q, state, action) == QGet(q, state, action)

\* the assignment of update_q_value dropping every other entry
WriteQAlone(q, state, action, current_q, reward) ==
    [k \in {<<state, action>>} |-> NewQ(current_q, reward)]

\* update_q_value: self.q_table[(state, action)] = new_q, new_q computed
\* from the value read before
WriteQ(q, state, action, current_q, reward) ==
    [k \in DOMAIN q \cup {<<state, action>>} |->
        IF k = <<state, action>> THEN NewQ(current_q, reward) ELSE q[k]]

\* the updates the two workers are about to make, all for one state
WorkerPlans ==
    [Workers -> [action : {"restart", "no_action"}, reward : {0 - 100, 62},
                 at : {"idle"}, current_q : {0}]]

InitWorkers ==
    /\ LoopIdle
    /\ disk = EmptyDisk
    /\ pc = "workers"
    /\ failure_predictor = None
    /\ anomaly_detector = None
    /\ scaler = None
    /\ q_table = EmptyQ
    /\ epsilon = 10
    /\ metrics_history = <<>>
    /\ n_updates = 0
    /\ \E mode \in Modes, w \in WorkerPlans :
         call = [fn |-> "workers", mode |-> mode, lock |-> 0, w |-> w,
                 order |-> <<>>]

\* the worker may enter update_q_value
MayEnter(i) ==
    LET other == CHOOSE j \in Workers : j # i IN
    /\ call.mode = "locked" => call.lock = 0
    /\ call.mode = "single" => call.w[other].at \in {"idle", "done"}

\* a worker reads the current Q-value of its key
WorkerRead ==
    /\ pc = "workers"
    /\ \E i \in Workers :
         /\ call.w[i].at = "idle"
         /\ MayEnter(i)
         /\ call' = [call EXCEPT
                        !.w[i].at = "read",
                        !.w[i].current_q = ReadQ(q_table, LearnState,
                                                 call.w[i].action),
                        !.lock = IF call.mode = "locked" THEN i ELSE @,
                        !.order = Append(@, i)]
    /\ UNCHANGED <<pc, failure_predictor, anomaly_detector, scaler, q_table,
                   epsilon, metrics_history, n_updates, loopVars>>

\* a worker stores the new Q-value of its key
WorkerWrite ==
    /\ pc = "workers"
    /\ n_updates < MaxUpdates
    /\ \E i \in Workers :
         /\ call.w[i].at = "read"
         /\ q_table' = WriteQ(q_table, LearnState, call.w[i].action,
                              call.w[i].current_q, call.w[i].reward)
         /\ call' = [call EXCEPT !.w[i].at = "written"]
    /\ n_updates' = n_updates + 1
    /\ UNCHANGED <<pc, failure_predictor, anomaly_detector, scaler, epsilon,
                   metrics_history, loopVars>>

\* a worker persists: save_models
WorkerPersist ==
    /\ pc = "workers"
    /\ \E i \in Workers :
         /\ call.w[i].at = "written"
         /\ call' = [call EXCEPT !.w[i].at = "done",
                                 !.lock = IF call.mode = "locked" THEN 0 ELSE @]
    /\ disk' = SavedDisk(disk, Objects, "none")
    /\ UNCHANGED <<pc, failure_predictor, anomaly_detector, scaler, q_table,
                   epsilon, metrics_history, n_updates, metrics, training, env,
                   appended, since_train, since_flush, predictions, anomalies,
                   executed, repair_history>>

NextWorkers == WorkerRead \/ WorkerWrite \/ WorkerPersist

SpecWorkers == InitWorkers /\ [][NextWorkers]_vars

-----------------------------------------------------------------------------
(* Claims *)

\* C1: in every state after the startup load the classifier, the detector
\* and the scaler are all absent, or all present and made by the same
\* train_models call.
C1_GroupAtomic ==
    pc # "init" =>
        \/ /\ failure_predictor = None
           /\ anomaly_detector = None
           /\ scaler = None
        \/ /\ failure_predictor # None
           /\ anomaly_detector # None
           /\ scaler # None
           /\ failure_predictor.run = scaler.run
           /\ anomaly_detector.run = scaler.run

C3_FailedTrainKeepsGroup ==
    training.result = "failed" => Group = training.before

\* C4: a retrain is attempted each time RetrainEvery further snapshots have
\* been appended since the previous attempt: no tick passes the retrain check
\* with RetrainEvery or more snapshots waiting, and no training starts with
\* fewer.
C4_FixedCadence ==
    /\ pc = "save" => since_train < RetrainEvery
    /\ training.result \in {"trained", "failed"} => training.gap >= RetrainEvery

\* the positions after j that hold a snapshot of the service of position j
SameServiceAfter(hist, j) ==
    {k \in (j + 1)..Len(hist) : hist[k].service = hist[j].service}

\* the first n positions of a set of positions
FirstPositions(S, n) == {k \in S : Cardinality({i \in S : i < k}) < n}

\* C5: the training set holds every snapshot but the most recent Horizon
\* ones, and the label of a snapshot is 1 exactly when one of the next
\* Horizon snapshots of the same service is unhealthy or has a greater
\* restart count.
C5_LabelsFollowService ==
    training.result \in {"trained", "failed"} =>
        /\ DOMAIN training.X = 1..(Len(metrics_history) - Horizon)
        /\ DOMAIN training.y = DOMAIN training.X
        /\ \A j \in DOMAIN training.y :
              training.y[j] = 1 <=>
                  \E k \in FirstPositions(SameServiceAfter(metrics_history, j),
                                          Horizon) :
                     \/ metrics_history[k].health_status = "unhealthy"
                     \/ metrics_history[k].restart_count
                            > metrics_history[j].restart_count

\* C6: the store never holds more than MaxLen snapshots; it holds the most
\* recent min(appended, MaxLen) appended snapshots in the order of their
\* insertion, so that after MaxLen + 1 insertions the first one is gone.
C6_StrictFifo ==
    LET n == Min(Len(appended), MaxLen) IN
    /\ Len(metrics_history) <= MaxLen
    /\ Len(metrics_history) = n
    /\ \A i \in 1..n : metrics_history[i] = appended[Len(appended) - n + i]
    /\ Len(appended) > MaxLen =>
          \A i \in 1..Len(metrics_history) :
              metrics_history[i].timestamp # appended[1].timestamp

\* C6 witness: more snapshots were appended than the store holds
C6_Witness ==
    /\ Len(appended) > MaxLen
    /\ Len(metrics_history) = MaxLen

ActionIndex(a) == CHOOSE i \in 1..Len(actions) : actions[i] = a

\* C7: with epsilon = 0, select_action returns an action whose Q-value for
\* the state (unseen pairs counting as 0) is maximal, and among the maximal
\* actions the one that comes first in the order of self.actions; the result
\* does not depend on the random draw.
C7_GreedyFirstInOrder ==
    (call.fn = "select_action" /\ epsilon = 0) =>
        /\ \A a \in ActionSet :
              QGet(q_table, call.state, call.result) >= QGet(q_table, call.state, a)
        /\ \A a \in ActionSet :
              QGet(q_table, call.state, a) = QGet(q_table, call.state, call.result)
                  => ActionIndex(call.result) <= ActionIndex(a)

\* C7 witness: epsilon = 0, the first action of the list is not maximal and
\* several later actions tie for the maximum after updates
C7_Witness ==
    /\ call.fn = "select_action"
    /\ epsilon = 0
    /\ n_updates > 0
    /\ call.result # actions[1]
    /\ \E a \in ActionSet \ {call.result} :
          QGet(q_table, call.state, a) = QGet(q_table, call.state, call.result)
    /\ \E a \in ActionSet :
          QGet(q_table, call.state, a) < QGet(q_table, call.state, call.result)

\* C8: update_q_value(state, action, R) replaces Q0 by Q1 = Q0 + alpha (R - Q0),
\* so |Q1 - R| = (1 - alpha) |Q0 - R|; every other entry of the Q-table is
\* left as it was, and no other entry enters the new value.
C8_UpdateLaw ==
    call.fn = "update_q_value" =>
        LET key == <<call.state, call.action>>
            R == call.reward * QUnit
            Q0 == call.q0
            Q1 == QGet(q_table, call.state, call.action)
        IN /\ key \in DOMAIN q_table
           /\ LrDen * (Q1 - Q0) = LrNum * (R - Q0)
           /\ LrDen * Abs(Q1 - R) = (LrDen - LrNum) * Abs(Q0 - R)
           /\ DOMAIN q_table \ {key} = DOMAIN call.others
           /\ \A k \in DOMAIN call.others : q_table[k] = call.others[k]

\* C8 witness: an update of an entry that already had a value, in a state
\* where another action has a positive Q-value
C8_Witness ==
    /\ call.fn = "update_q_value"
    /\ call.q0 # 0
    /\ call.q0 # call.reward * QUnit
    /\ \E a \in ActionSet \ {call.action} : QGet(q_table, call.state, a) > 0

\* C9: calculate_reward returns -10.0 whenever success is false, whatever
\* the two samples are, the second being absent included.
C9_FailureIsMinusTen ==
    (call.fn = "calculate_reward" /\ ~call.success) => call.result = 0 - 100

\* C9 witness: a failed action after which every metric improved
C9_Witness ==
    /\ call.fn = "calculate_reward"
    /\ ~call.success
    /\ call.after # None
    /\ call.after.cpu_usage < call.before.cpu_usage
    /\ call.after.memory_usage < call.before.memory_usage
    /\ call.after.error_rate < call.before.error_rate
    /\ call.after.response_time < call.before.response_time
    /\ call.after.health_status = "healthy"

\* C10: calculate_reward returns 0.0 whenever success is true and the
\* sample taken after the action is absent.
C10_AbsentAfterIsZero ==
    (call.fn = "calculate_reward" /\ call.success /\ call.after = None)
        => call.result = 0

\* C10 witness: a successful action with no sample after it
C10_Witness ==
    /\ call.fn = "calculate_reward"
    /\ call.success
    /\ call.after = None
    /\ call.before.health_status = "unhealthy"

\* C11: when success is true and the sample after the action is present,
\* calculate_reward is 5 max(0, cpu drop) + 5 max(0, memory drop)
\* + 10 max(0, error-rate drop) + 3 max(0, response-time drop), minus 3 when
\* cpu rose, minus 3 when memory rose, plus 5 when the health after the
\* action is healthy (tenths of a reward here); an unchanged cpu or memory
\* adds nothing and takes nothing.
C11_RewardFormula ==
    (call.fn = "calculate_reward" /\ call.success /\ call.after # None) =>
        LET b == call.before
            a == call.after
        IN call.result =
                5 * Max(0, b.cpu_usage - a.cpu_usage)
              + 5 * Max(0, b.memory_usage - a.memory_usage)
              + 10 * Max(0, b.error_rate - a.error_rate)
              + 3 * Max(0, b.response_time - a.response_time)
              - (IF a.cpu_usage > b.cpu_usage THEN 30 ELSE 0)
              - (IF a.memory_usage > b.memory_usage THEN 30 ELSE 0)
              + (IF a.health_status = "healthy" THEN 50 ELSE 0)

\* C11 witness: a successful action after which cpu is unchanged, memory
\* rose, the error rate and the response time fell and the service is not
\* healthy
C11_Witness ==
    /\ call.fn = "calculate_reward"
    /\ call.success
    /\ call.after # None
    /\ call.after.cpu_usage = call.before.cpu_usage
    /\ call.after.memory_usage > call.before.memory_usage
    /\ call.after.error_rate < call.before.error_rate
    /\ call.after.response_time < call.before.response_time
    /\ call.after.health_status = "down"
    /\ call.result = 50 + 57 - 30

\* C12: an error raised inside a tick does not end the loop: from the
\* handler of run the loop goes on to the next collect (unless the operator
\* interrupts the handler), and run is left only by a KeyboardInterrupt.
C12_LoopSurvivesErrors ==
    [][ /\ (pc = "error" /\ ~InterruptInHandler)
            => (pc' = "collect" /\ env'.errors = env.errors + 1)
        /\ (pc' \in {"stopped", "aborted"} /\ pc \notin {"stopped", "aborted"})
            => (Interrupt \/ InterruptInHandler) ]_vars

\* C12 witness: a tick under way after the handler of run caught an error
\* raised by an executor call
C12_Witness ==
    /\ pc = "predict"
    /\ env.errors > 0
    /\ env.boot = 0
    /\ Len(metrics) = Len(services)

\* C13: in a tick in which the classifier, the detector or the scaler is
\* absent, predict_failures and detect_anomalies return nothing, no action
\* is handed to the executor (so the Q-table is not touched), and no error
\* takes the tick to the handler of run before its retrain and flush checks.
C13_AbsentModelSkipsQuietly ==
    (/\ pc \in {"act", "handle", "error"}
     /\ \/ failure_predictor = None
        \/ anomaly_detector = None
        \/ scaler = None)
        => /\ pc # "error"
           /\ predictions = <<>>
           /\ anomalies = <<>>
           /\ executed = <<>>

\* C14 as stated: while this process has stored fewer than MinTrain
\* snapshots, no tick produces a failure prediction, whatever artifacts the
\* model path held at startup.
C14_NoPredictionBeforeData ==
    Len(appended) < MinTrain => predictions = <<>>

\* C14 amended: while this process has stored fewer than MinTrain snapshots
\* it has trained nothing, so a failure prediction is produced only by a
\* classifier and a scaler that load_models restored at startup; a process
\* that restored no classifier or no scaler produces none.
C14_PredictionsOnlyFromArtifacts ==
    Len(appended) < MinTrain =>
        /\ \A m \in {failure_predictor, anomaly_detector, scaler} :
              m = None \/ m.run <= env.boot
        /\ predictions # <<>> =>
              /\ failure_predictor # None
              /\ scaler # None

\* C14 witness: a prediction in the first tick of a process that restored
\* the model group of an earlier run
C14_Witness ==
    /\ Len(appended) > 0
    /\ Len(appended) < MinTrain
    /\ predictions # <<>>
    /\ failure_predictor.run <= env.boot

\* the repair records take_preventive_action appended in the current tick
RecordsOfTick ==
    {k \in DOMAIN repair_history :
        /\ metrics # <<>>
        /\ repair_history[k].metrics_before.timestamp
              > metrics[Len(metrics)].timestamp}

\* the entries of executed for one service and action
Handed(service, action) ==
    {i \in DOMAIN executed :
        executed[i].service = service /\ executed[i].action = action}

\* the step in which take_preventive_action records an action the executor
\* reported as failed: reward -10, one Q-table update of that (state, action)
\* by the update law with that reward, one record, one executor call, and
\* the loop goes on with the predictions of the tick
FailedActionStep ==
    LET n == Len(repair_history')
        r == repair_history'[n]
        key == <<get_state(r.metrics_before), r.action>>
        Q0 == QGet(q_table, key[1], key[2])
    IN (n = Len(repair_history) + 1 /\ ~r.success) =>
          /\ r.reward = 0 - 100
          /\ n_updates' = n_updates + 1
          /\ DOMAIN q_table' = DOMAIN q_table \cup {key}
          /\ \A k \in DOMAIN q_table \ {key} : q_table'[k] = q_table[k]
          /\ LrDen * (q_table'[key] - Q0) = LrNum * (r.reward * QUnit - Q0)
          /\ Len(executed') = Len(executed) + 1
          /\ executed'[Len(executed')].service = r.service
          /\ executed'[Len(executed')].action = r.action
          /\ pc' = "act"

C16_ExecutedThenLearned ==
    [][ (Len(executed') > Len(executed) /\ pc' # "error") =>
            LET e == executed'[Len(executed')]
                n == Len(repair_history')
            IN /\ n = Len(repair_history) + 1
               /\ repair_history'[n].service = e.service
               /\ repair_history'[n].action = e.action
               /\ repair_history'[n].reward
                     = calculate_reward(repair_history'[n].metrics_before,
                                        repair_history'[n].metrics_after,
                                        repair_history'[n].success)
               /\ n_updates' = n_updates + 1
               /\ <<get_state(repair_history'[n].metrics_before), e.action>>
                     \in DOMAIN q_table' ]_vars

\* the process is past startup and has not been shut down
Running == pc \notin {"init", "stopped", "aborted"}

\* C17: after startup the Q-table changes only in a step that makes one
\* update_q_value call, and such a step changes at most one entry; no step
\* removes an entry or changes the value of any other entry.
C17_OnlyUpdateChangesQ ==
    [][ Running =>
          /\ DOMAIN q_table \subseteq DOMAIN q_table'
          /\ n_updates' = n_updates => q_table' = q_table
          /\ q_table' # q_table =>
                /\ n_updates' = n_updates + 1
                /\ \E key \in DOMAIN q_table' :
                      \A k \in DOMAIN q_table' \ {key} :
                          k \in DOMAIN q_table /\ q_table'[k] = q_table[k] ]_vars

\* an update has been applied to a table that also holds an entry restored
\* from the previous run
C17_Witness ==
    /\ Running
    /\ n_updates > 0
    /\ Cardinality(DOMAIN q_table) >= 2
    /\ \E k \in DOMAIN PriorQ : k \in DOMAIN q_table /\ q_table[k] = PriorQ[k]

\* C19: the flush check of a tick calls save_models exactly when FlushEvery
\* or more snapshots have been ingested since the previous flush: a flush
\* happens at every flush point and at no other tick, whatever a tick
\* ingests and whatever the window holds.
C19_FlushEveryFlushPoint ==
    [][ pc = "save" => (SaveModels <=> since_flush >= FlushEvery) ]_vars

\* C20: after a graceful shutdown the Q-table the next startup loads from
\* the artifacts equals the Q-table held in memory at shutdown, entry for
\* entry, the empty table included, whenever every artifact written can be
\* read back.
C20_ShutdownRoundTrip ==
    (pc = "stopped" /\ \A i \in DOMAIN Members : disk[Members[i]] # Corrupt)
        => LoadedState(disk).q_table = q_table

\* the records of take_preventive_action for the action
RecordsFor(action) ==
    {i \in DOMAIN repair_history : repair_history[i].action = action}

QRestart == QGet(q_table, LearnState, "restart")
QNoAction == QGet(q_table, LearnState, "no_action")

UsageBucket(x) ==
    IF x # NaN /\ x > 7 THEN "high"
    ELSE IF x # NaN /\ x > 3 /\ x <= 7 THEN "medium"
    ELSE "low"

HealthBucket(h) == IF h = "unhealthy" THEN "unhealthy" ELSE "healthy"

\* the service id and the three buckets of a snapshot
BucketsOf(m) ==
    <<m.service, UsageBucket(m.cpu_usage), UsageBucket(m.memory_usage),
      HealthBucket(m.health_status)>>

\* C26: get_state yields for every snapshot the key made of its service id,
\* cpu bucket, memory bucket and health bucket, and two snapshots have the
\* same key exactly when they have the same service id and the same buckets.
C26_StateKeyOfBuckets ==
    call.fn = "get_state" =>
        LET b == BucketsOf(call.metric) IN
        /\ call.result = b[1] \o "_" \o b[2] \o "_" \o b[3] \o "_" \o b[4]
        /\ \A m \in SnapshotInputs :
              (get_state(m) = call.result) <=> (BucketsOf(m) = b)

\* get_state was called on a snapshot with cpu exactly 0.7 and memory
\* exactly 0.3 of the service whose id ends like a bucket
C26_Witness ==
    /\ call.fn = "get_state"
    /\ call.metric.service = "redis_low"
    /\ call.metric.cpu_usage = 7
    /\ call.metric.memory_usage = 3
    /\ call.result = "redis_low_medium_low_healthy"

\* C28: to_features yields 9 components in the order cpu, memory, disk,
\* network errors, restart count, health flag, response time, error rate,
\* request rate; the flag is 1 exactly when health_status is unhealthy.
C28_NineFeaturesInOrder ==
    call.fn = "to_features" =>
        LET m == call.metric
            f == call.result
        IN /\ Len(f) = 9
           /\ f[1] = m.cpu_usage
           /\ f[2] = m.memory_usage
           /\ f[3] = m.disk_usage
           /\ f[4] = m.network_errors
           /\ f[5] = m.restart_count
           /\ f[6] \in {0, 1}
           /\ f[6] = 1 <=> m.health_status = "unhealthy"
           /\ f[7] = m.response_time
           /\ f[8] = m.error_rate
           /\ f[9] = m.request_rate
           /\ \A m2 \in SnapshotInputs :
                 m2 = m => to_features(m2) = f

\* to_features was called on a snapshot of a service that is down
C28_Witness ==
    /\ call.fn = "to_features"
    /\ call.metric.health_status = "down"
    /\ call.result[6] = 0
    /\ call.result[1] = 9

\* C29: an action is handed to the executor by take_preventive_action only
\* for the prediction of the tick under inspection, only when its
\* probability is strictly greater than 0.7, and the action handed over is
\* the recommended_action of that prediction for the service of that
\* prediction.
C29_ActsOnlyAboveThreshold ==
    [][ ( /\ Len(executed') > Len(executed)
          /\ executed'[Len(executed')].trigger = "prediction" ) =>
            /\ predictions # <<>>
            /\ Head(predictions).probability > 70
            /\ executed'[Len(executed')].service = Head(predictions).service
            /\ executed'[Len(executed')].action
                  = Head(predictions).recommended_action ]_vars

\* a preventive action has been executed and recorded in a tick
C29_Witness ==
    /\ pc = "act"
    /\ executed # <<>>
    /\ executed[Len(executed)].trigger = "prediction"
    /\ repair_history # <<>>
    /\ repair_history[Len(repair_history)].action = executed[Len(executed)].action

\* the snapshot of the tick the prediction for the service was made from
PredictedFrom(service) ==
    metrics[CHOOSE i \in DOMAIN metrics : metrics[i].service = service]

\* C30: the Q entry updated after a preventive action is the entry of the
\* state key select_action was called with when the prediction was made,
\* whatever the sample collected just before the action shows.
C30_UpdatesSelectedState ==
    [][ ( /\ pc = "act"
          /\ Len(repair_history') = Len(repair_history) + 1
          /\ n_updates' = n_updates + 1 ) =>
            LET p == Head(predictions)
                r == repair_history'[Len(repair_history')]
            IN /\ get_state(r.metrics_before) = get_state(PredictedFrom(p.service))
               /\ q_table' = update_q_value(q_table,
                                 get_state(PredictedFrom(p.service)),
                                 p.recommended_action, r.reward) ]_vars

\* C25: collect_metrics returns one snapshot for every monitored service on
\* every tick, in the order of the service list, whatever the metrics
\* source answered.
C25_SnapshotForEveryService ==
    pc = "predict" =>
        /\ Len(metrics) = Len(services)
        /\ \A i \in DOMAIN metrics : metrics[i].service = services[i]

\* the retention period of RepairAction records (timedelta(days=7) in
\* cleanup_history), in steps of the clock that stamps the samples
RetentionSpan == 4

\* C23: after every tick the RepairAction history holds only records
\* younger than the retention period: older ones have been pruned.
C23_HistoryPruned ==
    pc = "sleep" =>
        \A i \in DOMAIN repair_history :
            repair_history[i].metrics_before.timestamp > env.now - RetentionSpan

\* what a load of the artifacts gives for the four members
LoadedMembers(d) ==
    [failure_predictor |-> LoadedState(d).failure_predictor,
     anomaly_detector |-> LoadedState(d).anomaly_detector,
     scaler |-> LoadedState(d).scaler,
     q_table |-> LoadedState(d).q_table]

\* C21: a flush, complete or failed partway, leaves the four artifacts as
\* one unit: either they are the four members this flush held in memory,
\* or the flush changed none of them.
C21_FlushIsOneUnit ==
    [][ ((pc = "save" /\ SaveModels) \/ Interrupt) =>
            \/ disk' = disk
            \/ LoadedMembers(disk') = Objects ]_vars

\* C22: when at startup one of the four artifacts is missing or cannot be
\* read, load_models still returns and leaves the classifier, the detector
\* and the scaler all absent.
C22_PartialLoadIsNoModel ==
    [][ ( /\ pc = "init"
          /\ \E i \in DOMAIN Members : disk[Members[i]] \in {Absent, Corrupt} ) =>
            /\ pc' = "collect"
            /\ failure_predictor' = None
            /\ anomaly_detector' = None
            /\ scaler' = None ]_vars

\* C24: a save of the history artifact that completes writes at most
\* HistoryCap entries;
\* when more are held it writes the HistoryCap most recent ones in their
\* order; when no more are held it writes what is held, which is what was
\* loaded at startup.
C24_HistoryCapped ==
    (call.fn = "save_history" /\ call.raised = "none") =>
        LET held == call.failure_history
            written == call.file.failures
        IN /\ Len(written) <= HistoryCap
           /\ Len(held) > HistoryCap =>
                 /\ Len(written) = HistoryCap
                 /\ \A k \in 1..HistoryCap :
                       written[k] = held[Len(held) - HistoryCap + k]
           /\ Len(held) <= HistoryCap =>
                 /\ written = held
                 /\ (call.loaded # Absent /\ call.loaded # Corrupt)
                       => written = call.loaded.failures

\* a history of more than HistoryCap entries, the oldest and the latest
\* different, has been saved
C24_Witness ==
    /\ call.fn = "save_history"
    /\ Len(call.failure_history) = HistoryCap + 2
    /\ call.failure_history[1] = 1
    /\ call.failure_history[HistoryCap + 2] = 2
    /\ call.raised = "none"
    /\ Len(call.file.failures) = HistoryCap
\* the Q-table after the updates of the two workers applied one after the
\* other, in the order in which the workers entered update_q_value
OneAfterTheOther ==
    LET a == call.w[call.order[1]]
        b == call.w[call.order[2]]
    IN update_q_value(update_q_value(EmptyQ, LearnState, a.action, a.reward),
                      LearnState, b.action, b.reward)

BothDone == \A i \in Workers : call.w[i].at = "done"

\* C27: with a single writer, or a lock from the read of update_q_value to
\* the end of the persist, no update is lost: when both workers are done
\* the Q-table in memory is the one the two updates give one after the
\* other, and the persisted Q-table equals it.
C27_NoLostUpdateWhenSerialised ==
    (call.fn = "workers" /\ call.mode # "shared" /\ BothDone) =>
        /\ q_table = OneAfterTheOther
        /\ LoadedState(disk).q_table = q_table

\* C27, the interleaving: two workers with nothing between them are done
\* and the update of the one that entered first is lost, in memory and in
\* the persisted Q-table
C27_Witness ==
    /\ call.fn = "workers"
    /\ call.mode = "shared"
    /\ BothDone
    /\ q_table # OneAfterTheOther
    /\ LoadedState(disk).q_table # OneAfterTheOther
    /\ q_table = update_q_value(EmptyQ, LearnState,
                                call.w[call.order[2]].action,
                                call.w[call.order[2]].reward)

\* the entries of executed, the actions of the current tick, for one service
HandedFor(service) ==
    {i \in DOMAIN executed : executed[i].service = service}

\* C31: within one tick at most one action is handed to execute_action for
\* any one service, also when the service is both predicted to fail with a
\* probability above 0.7 and flagged as anomalous in that tick.
C31_OneActionPerService ==
    \A service \in ServiceSet : Cardinality(HandedFor(service)) <= 1

\* the rewards update_q_value has been called with since the empty table
ObservedRewards ==
    {repair_history[i].reward : i \in DOMAIN repair_history}

Rmin == CHOOSE r \in ObservedRewards : \A s \in ObservedRewards : r <= s
Rmax == CHOOSE r \in ObservedRewards : \A s \in ObservedRewards : r >= s

\* C32: with the learning rate 0.1 and every reward observed so far in
\* [Rmin, Rmax], every entry of a Q-table that started empty lies between
\* min(0, Rmin) and max(0, Rmax); no entry is below -10 when no reward is.
C32_QWithinRewardHull ==
    /\ ObservedRewards = {} => q_table = EmptyQ
    /\ ObservedRewards # {} =>
          \A k \in DOMAIN q_table :
             /\ Min(0, Rmin) * QUnit <= q_table[k]
             /\ q_table[k] <= Max(0, Rmax) * QUnit
    /\ (\A r \in ObservedRewards : r >= 0 - 100) =>
          \A k \in DOMAIN q_table : q_table[k] >= (0 - 100) * QUnit

\* C32 witness: the entry of one action has been updated twice, with the
\* lowest reward -10 and with a positive one, and lies strictly inside
C32_Witness ==
    /\ pc = "learn"
    /\ Len(repair_history) = 2
    /\ repair_history[1].action = repair_history[2].action
    /\ Rmin = 0 - 100
    /\ Rmax > 0
    /\ \E k \in DOMAIN q_table :
          Rmin * QUnit < q_table[k] /\ q_table[k] < 0

-----------------------------------------------------------------------------
(* auto_repair_watchdog.py: AutoRepairWatchdog, one check cycle after another.
   The record `call` holds the watchdog's fields (failure_counts,
   service_health), its clock, the commands and alerts of the cycle under
   way, the failure counts the cycle started with and, per service, the time
   attempt_repair last ran a repair. *)

\* MAX_RESTART_ATTEMPTS, RESTART_COOLDOWN and WATCHDOG_INTERVAL (seconds)
max_restart_attempts == 3
restart_cooldown == 300
check_interval == 30

\* the services docker-compose lists; redis is one of critical_services
WatchedServices == {"redis"}
critical_services == {"postgres", "redis", "prometheus", "grafana", "loki",
                      "threat-detection-app", "dashboard"}

\* the entries `docker-compose ps` can give for a service
ListedStates ==
    {[status |-> "running", health |-> "healthy", restarts |-> 0],
     [status |-> "running", health |-> "unhealthy", restarts |-> 0],
     [status |-> "exited", health |-> "unknown", restarts |-> 0],
     [status |-> "restarting", health |-> "unknown", restarts |-> 0],
     [status |-> "running", health |-> "healthy", restarts |-> 6]}

\* ServiceHealth(...): last_repair_attempt takes its default, None
ServiceHealth(name, listed) ==
    [name |-> name, status |-> listed.status, health |-> listed.health,
     restarts |-> listed.restarts, last_repair_attempt |-> None]

needs_repair(health) ==
    \/ health.status \in {"exited", "dead", "removing"}
    \/ health.health = "unhealthy" /\ health.name \in critical_services
    \/ health.status = "restarting"
    \/ health.restarts > 5

\* the docker-compose commands of the repair strategy attempt_repair picks,
\* and the seconds it sleeps; the second command of a stuck service is not
\* issued when the first fails
RepairOutcomes == {"true", "false", "first_failed"}

StrategyOf(health) ==
    IF health.status \in {"exited", "dead"} THEN "exited"
    ELSE IF health.health = "unhealthy" THEN "unhealthy"
    ELSE IF health.status = "restarting" THEN "restarting"
    ELSE "generic"

StrategyCommands(strategy, outcome) ==
    IF strategy = "exited" THEN <<"start">>
    ELSE IF strategy = "restarting"
        THEN (IF outcome = "first_failed" THEN <<"stop">> ELSE <<"stop", "start">>)
    ELSE <<"restart">>

StrategySeconds(strategy, outcome) ==
    IF outcome = "first_failed" THEN 0
    ELSE IF strategy = "exited" THEN 5
    ELSE IF strategy = "restarting" THEN 15
    ELSE 10

\* the commands as records of the cycle: who issued them, when, and the
\* failure count of the service at that moment
Issued(w, service, cmds, by) ==
    [i \in 1..Len(cmds) |->
        [service |-> service, cmd |-> cmds[i], by |-> by, at |-> w.now,
         count |-> w.failure_counts[service],
         last |-> w.repaired_at[service]]]

\* attempt_repair skips while the cooldown of the health object runs
InCooldown(w, health) ==
    /\ health.last_repair_attempt # None
    /\ w.now < health.last_repair_attempt.at + restart_cooldown

\* attempt_repair(health): the watchdog and the health object afterwards
attempt_repair(w, health, outcome) ==
    LET name == health.name
        strategy == StrategyOf(health)
        cmds == StrategyCommands(strategy, outcome)
        done == w.now + StrategySeconds(strategy, outcome)
    IN IF InCooldown(w, health)
           THEN [w |-> w, health |-> health]
       ELSE IF w.failure_counts[name] >= max_restart_attempts
           THEN [w |-> [w EXCEPT !.alerts = @ + 1], health |-> health]
       ELSE [w |-> [w EXCEPT
                     !.commands = @ \o Issued(w, name, cmds, "attempt_repair"),
                     !.repaired_at[name] = [at |-> w.now],
                     !.failure_counts[name] =
                         IF outcome = "true" THEN 0 ELSE @ + 1,
                     !.now = done],
             health |-> [health EXCEPT !.last_repair_attempt = [at |-> done]]]

InitWatchdog ==
    /\ LoopIdle
    /\ disk = EmptyDisk
    /\ pc = "wd_check"
    /\ failure_predictor = None
    /\ anomaly_detector = None
    /\ scaler = None
    /\ q_table = EmptyQ
    /\ epsilon = 10
    /\ metrics_history = <<>>
    /\ n_updates = 0
    /\ call = [fn |-> "watchdog",
               failure_counts |-> [s \in WatchedServices |-> 0],
               service_health |-> [s \in WatchedServices |-> None],
               repaired_at |-> [s \in WatchedServices |-> None],
               counts_before |-> [s \in WatchedServices |-> 0],
               now |-> 0, cycles |-> 0, commands |-> <<>>, alerts |-> 0]

WatchdogLeaves ==
    UNCHANGED <<failure_predictor, anomaly_detector, scaler, q_table, epsilon,
                metrics_history, n_updates, loopVars>>

\* check_and_repair, lines 117-138: the status of every listed service, a
\* new ServiceHealth for it, attempt_repair when it needs repair
CheckServices ==
    /\ pc = "wd_check"
    /\ call.cycles < MaxTicks
    /\ pc' = "wd_alerts"
    /\ \E service \in WatchedServices, listed \in ListedStates \cup {Absent},
          outcome \in RepairOutcomes :
         LET w == [call EXCEPT !.cycles = @ + 1, !.commands = <<>>,
                               !.alerts = 0,
                               !.counts_before = call.failure_counts]
         IN IF listed = Absent
            THEN call' = w
            ELSE LET health == ServiceHealth(service, listed)
                     r == IF needs_repair(health)
                          THEN attempt_repair(w, health, outcome)
                          ELSE [w |-> w, health |-> health]
                 IN call' = [r.w EXCEPT !.service_health[service] = r.health]
    /\ WatchdogLeaves

\* check_prometheus_alerts / handle_prometheus_alert: attempt_repair for the
\* stored health object of a service with a firing alert
CheckPrometheusAlerts ==
    /\ pc = "wd_alerts"
    /\ pc' = "wd_resources"
    /\ \E firing \in SUBSET WatchedServices, outcome \in RepairOutcomes :
         IF firing = {}
         THEN call' = call
         ELSE \E service \in firing :
                IF call.service_health[service] = None
                THEN call' = call
                ELSE LET r == attempt_repair(call,
                                  call.service_health[service], outcome)
                     IN call' = [r.w EXCEPT
                                    !.service_health[service] = r.health]
    /\ WatchdogLeaves

\* check_resource_usage: a container above 90 % cpu or memory is restarted
\* by repair_high_cpu / repair_high_memory
CheckResourceUsage ==
    /\ pc = "wd_resources"
    /\ pc' = "wd_sleep"
    /\ \E service \in WatchedServices, high \in SUBSET {"cpu", "memory"} :
         LET n == Cardinality(high)
             cmds == [i \in 1..n |-> "restart"]
         IN call' = [call EXCEPT
                        !.commands = @ \o Issued(call, service, cmds,
                                                 "check_resource_usage"),
                        !.now = @ + 10 * n]
    /\ WatchdogLeaves

\* run: time.sleep(self.check_interval)
WatchdogSleep ==
    /\ pc = "wd_sleep"
    /\ pc' = "wd_check"
    /\ call' = [call EXCEPT !.now = @ + check_interval]
    /\ WatchdogLeaves

NextWatchdog ==
    CheckServices \/ CheckPrometheusAlerts \/ CheckResourceUsage \/ WatchdogSleep

SpecWatchdog == InitWatchdog /\ [][NextWatchdog]_vars

\* C33: once attempt_repair has run a repair for a service, attempt_repair
\* starts no further repair of that service, in the same check cycle or a
\* later one, before restart_cooldown seconds have passed since that repair.
C33_CooldownAcrossCycles ==
    \A i \in DOMAIN call.commands :
       LET c == call.commands[i] IN
       (c.by = "attempt_repair" /\ c.last # None) =>
           c.at >= c.last.at + restart_cooldown

\* C34: a service whose failure count has reached max_restart_attempts is
\* sent no restart, stop or start command in any later cycle (an alert is
\* sent instead), and the count never exceeds max_restart_attempts.
C34_NoCommandAfterMaxAttempts ==
    /\ \A service \in WatchedServices :
          call.failure_counts[service] <= max_restart_attempts
    /\ \A i \in DOMAIN call.commands :
          call.counts_before[call.commands[i].service] < max_restart_attempts

-----------------------------------------------------------------------------
(* remediate.py: one run of main() after another. The record `call` holds
   remediation_history, the clock, the firing alerts main still has to look
   at and, per action key, the times at which the remediation functions ran
   their commands in this and earlier runs of the script. *)

\* MAX_RESTART_ATTEMPTS and REMEDIATION_COOLDOWN (seconds) of remediate.py
MAX_RESTART_ATTEMPTS == 3
REMEDIATION_COOLDOWN == 300

\* at most MaxCalls calls of remediation functions in one behaviour
MaxCalls == 5

\* the action keys: f"restart_{service_name}" for the service of
\* check_service_health that is modelled, f"scale_{service_name}" for the
\* celery workers, and the three fixed keys
ActionKeys == {"restart_redis", "scale_celery-worker", "clear_redis_cache",
               "rotate_logs", "cleanup_old_data"}

\* how the command of a remediation function ends
CommandOutcomes == {"ok", "failed"}

\* seconds between the end of one run of the script and the start of the next
RunGaps == {60, 300}

\* can_remediate: the entries of the key younger than the cooldown
RecentEntries(history, now) ==
    LET Recent(ts) == now - ts < REMEDIATION_COOLDOWN
    IN SelectSeq(history, Recent)

can_remediate(history, now) ==
    Len(RecentEntries(history, now)) < MAX_RESTART_ATTEMPTS

\* a remediation function (restart_service, scale_service, clear_redis_cache,
\* rotate_logs, cleanup_old_data) for its key: can_remediate, the command,
\* record_remediation when the command did not raise. The command takes a
\* second; cleanup_old_data runs none and always records.
Remediated(r, key, outcome) ==
    LET pruned == RecentEntries(r.remediation_history[key], r.now)
        ends == IF key = "cleanup_old_data" THEN r.now ELSE r.now + 1
        ok == outcome = "ok" \/ key = "cleanup_old_data"
    IN IF Len(pruned) >= MAX_RESTART_ATTEMPTS
       THEN [r EXCEPT !.remediation_history[key] = pruned, !.calls = @ + 1]
       ELSE [r EXCEPT
               !.remediation_history[key] =
                   IF ok THEN Append(pruned, ends) ELSE pruned,
               !.ran[key] = Append(@, r.now),
               !.now = ends,
               !.calls = @ + 1]

InitRemediate ==
    /\ LoopIdle
    /\ disk = EmptyDisk
    /\ pc = "rm_health"
    /\ failure_predictor = None
    /\ anomaly_detector = None
    /\ scaler = None
    /\ q_table = EmptyQ
    /\ epsilon = 10
    /\ metrics_history = <<>>
    /\ n_updates = 0
    /\ call = [fn |-> "remediate",
               remediation_history |-> [k \in ActionKeys |-> <<>>],
               ran |-> [k \in ActionKeys |-> <<>>],
               now |-> 0, runs |-> 1, calls |-> 0, backlog_alerts |-> 0]

RemediateLeaves ==
    UNCHANGED <<failure_predictor, anomaly_detector, scaler, q_table, epsilon,
                metrics_history, n_updates, loopVars>>

\* main, 323-327: remediate_service_down for a service that is not up
RemediateServiceDown ==
    /\ pc = "rm_health"
    /\ pc' = "rm_memory"
    /\ \E is_healthy \in BOOLEAN, outcome \in CommandOutcomes :
         IF is_healthy \/ call.calls >= MaxCalls
         THEN call' = call
         ELSE call' = Remediated(call, "restart_redis", outcome)
    /\ RemediateLeaves

\* main, 333-334: remediate_high_memory above 85 %
RemediateHighMemory ==
    /\ pc = "rm_memory"
    /\ pc' = "rm_disk"
    /\ \E high \in BOOLEAN, outcome \in CommandOutcomes :
         IF ~high \/ call.calls >= MaxCalls
         THEN call' = call
         ELSE call' = Remediated(call, "clear_redis_cache", outcome)
    /\ RemediateLeaves

\* main, 336-337: remediate_low_disk_space above 85 %: rotate_logs, then
\* cleanup_old_data; get_active_alerts follows (341)
RemediateLowDiskSpace ==
    /\ pc = "rm_disk"
    /\ pc' = "rm_alerts"
    /\ \E high \in BOOLEAN, outcome \in CommandOutcomes,
          firing \in 0..(MAX_RESTART_ATTEMPTS + 1) :
         LET r == IF ~high \/ call.calls + 2 > MaxCalls
                  THEN call
                  ELSE Remediated(Remediated(call, "rotate_logs", outcome),
                                  "cleanup_old_data", "ok")
         IN call' = [r EXCEPT !.backlog_alerts = firing]
    /\ RemediateLeaves

\* main, 343-347: remediate_celery_queue_backlog for the next firing alert
\* named CeleryQueueBacklog
RemediateCeleryQueueBacklog ==
    /\ pc = "rm_alerts"
    /\ call.backlog_alerts > 0
    /\ call.calls < MaxCalls
    /\ \E outcome \in CommandOutcomes :
         call' = [Remediated(call, "scale_celery-worker", outcome)
                     EXCEPT !.backlog_alerts = @ - 1]
    /\ UNCHANGED pc
    /\ RemediateLeaves

\* main returns and the process ends; the next run of the script is a new
\* process, whose remediation_history is the empty dict of line 35
NextRun ==
    /\ pc = "rm_alerts"
    /\ call.backlog_alerts = 0 \/ call.calls >= MaxCalls
    /\ call.runs < MaxTicks
    /\ pc' = "rm_health"
    /\ \E gap \in RunGaps :
         call' = [call EXCEPT
                     !.remediation_history = [k \in ActionKeys |-> <<>>],
                     !.now = @ + gap, !.runs = @ + 1, !.backlog_alerts = 0]
    /\ RemediateLeaves

NextRemediate ==
    \/ RemediateServiceDown
    \/ RemediateHighMemory
    \/ RemediateLowDiskSpace
    \/ RemediateCeleryQueueBacklog
    \/ NextRun

SpecRemediate == InitRemediate /\ [][NextRemediate]_vars

\* C35: for every action key, at most MAX_RESTART_ATTEMPTS remediations ran
\* their command within any window of REMEDIATION_COOLDOWN seconds, failed
\* commands counted like those that succeeded.
C35_AtMostMaxPerWindow ==
    \A key \in ActionKeys :
       \A i \in DOMAIN call.ran[key] :
          Cardinality({j \in DOMAIN call.ran[key] :
                          /\ j <= i
                          /\ call.ran[key][i] - call.ran[key][j]
                                < REMEDIATION_COOLDOWN})
             <= MAX_RESTART_ATTEMPTS

-----------------------------------------------------------------------------
(* auto_scaler.py: AutoScaler, one check_and_scale after another. The record
   `call` holds the replicas docker-compose runs for the service, the number
   of checks so far and the scale command of the last check. *)

\* scaling_config['celery-worker']; thresholds in hundredths
min_replicas == 1
max_replicas == 5
scale_up_threshold == 80
scale_down_threshold == 20

\* replica counts docker-compose can be running, by this scaler or another tool
ReplicaCounts == 0..(max_replicas + 2)

\* get_metric_value: None, or the float of the first result (hundredths),
\* which can be "NaN"
MetricValues ==
    {None} \cup {[value |-> v] : v \in {NaN, 0, 10, 20, 50, 80, 90, 400}}

\* get_replica_count: the containers listed, 0 when docker-compose ps fails
get_replica_count(running, readable) == IF readable THEN running ELSE 0

\* comparisons of Python floats: every comparison with nan is False
FloatGt(x, y) == x # NaN /\ x > y
FloatLt(x, y) == x # NaN /\ x < y

\* check_and_scale for the service: the scale command it issues, or None
scale_request(current_replicas, metric_value) ==
    IF metric_value = None THEN None
    ELSE IF FloatGt(metric_value.value, scale_up_threshold)
        THEN (IF current_replicas < max_replicas
                 THEN [to |-> current_replicas + 1, by |-> "scale_up"]
                 ELSE None)
    ELSE IF FloatLt(metric_value.value, scale_down_threshold)
        THEN (IF current_replicas > min_replicas
                 THEN [to |-> current_replicas - 1, by |-> "scale_down"]
                 ELSE None)
    ELSE None

InitScaler ==
    /\ LoopIdle
    /\ disk = EmptyDisk
    /\ pc = "scaler"
    /\ failure_predictor = None
    /\ anomaly_detector = None
    /\ scaler = None
    /\ q_table = EmptyQ
    /\ epsilon = 10
    /\ metrics_history = <<>>
    /\ n_updates = 0
    /\ call = [fn |-> "check_and_scale", running |-> min_replicas,
               checks |-> 0, command |-> None]

ScalerLeaves ==
    UNCHANGED <<pc, failure_predictor, anomaly_detector, scaler, q_table,
                epsilon, metrics_history, n_updates, loopVars>>

\* check_and_scale: read the replica count and the metric, issue the scale
\* command; a command that succeeds sets the running replicas
CheckAndScale ==
    /\ pc = "scaler"
    /\ call.checks < MaxTicks
    /\ \E readable \in BOOLEAN, metric_value \in MetricValues,
          done \in BOOLEAN :
         LET current_replicas == get_replica_count(call.running, readable)
             request == scale_request(current_replicas, metric_value)
         IN call' = [call EXCEPT
                        !.checks = @ + 1,
                        !.command =
                            IF request = None THEN None
                            ELSE [to |-> request.to, by |-> request.by,
                                  current_replicas |-> current_replicas,
                                  metric_value |-> metric_value],
                        !.running =
                            IF request # None /\ done THEN request.to ELSE @]
    /\ ScalerLeaves

\* another tool (an operator, remediate.py's scale_service) sets the replicas
ScaledElsewhere ==
    /\ pc = "scaler"
    /\ call.checks < MaxTicks
    /\ \E n \in ReplicaCounts \ {call.running} :
         call' = [call EXCEPT !.running = n, !.command = None]
    /\ ScalerLeaves

NextScaler == CheckAndScale \/ ScaledElsewhere

SpecScaler == InitScaler /\ [][NextScaler]_vars

\* C36: every scale command of check_and_scale asks for a replica count in
\* [min_replicas, max_replicas], whatever replica count it observed (0 when
\* the count cannot be read, counts above max_replicas) and whatever the metric.
C36_ScaleWithinRange ==
    call.command # None =>
        (min_replicas <= call.command.to /\ call.command.to <= max_replicas)

-----------------------------------------------------------------------------
(* auto_patcher.py: AutoPatcher, one check_and_patch after another and
   restarts of the process. The record `call` holds applied_patches, the
   content of applied_patches.json, the state of the target file of every
   patch, how often patch_files wrote the replacement of every patch, and
   the position of check_and_patch in self.patches. *)

\* two of the patch ids of self.patches, in the order of the dict
PatchIds == <<"timeout_fix", "cache_optimization">>
PatchSet == {PatchIds[i] : i \in DOMAIN PatchIds}

\* applied_patches.json: absent, unreadable, or the ids json.dump wrote
AppliedFile(ids) == [kind |-> "json", ids |-> ids]

\* load_applied_patches: the dict of the file, {} without a readable file
load_applied_patches(file) ==
    IF file \in {Absent, Corrupt} THEN {} ELSE file.ids

\* save_applied_patches: open(..., 'w') and json.dump; an exception is
\* logged, and leaves the file as it was (open failed) or cut short
save_applied_patches(file, applied, outcome) ==
    IF outcome = "ok" THEN AppliedFile(applied)
    ELSE IF outcome = "open_failed" THEN file
    ELSE Corrupt

SaveOutcomes == {"ok", "open_failed", "cut_short"}

\* patch_files for the one target file of a patch: a missing file is
\* skipped and the result is True; a write that raises gives False
PatchOutcomes == {"written", "raised"}

patch_files(target, outcome) ==
    IF target = "missing" THEN [success |-> TRUE, wrote |-> FALSE,
                                target |-> "missing"]
    ELSE IF outcome = "written" THEN [success |-> TRUE, wrote |-> TRUE,
                                      target |-> "patched"]
    ELSE [success |-> FALSE, wrote |-> FALSE, target |-> target]

\* apply_patch: backup, patch_files, then record and save, or restore
apply_patch(p, patch_id, outcome, saved) ==
    LET r == patch_files(p.targets[patch_id], outcome)
        applied == p.applied_patches \cup {patch_id}
    IN IF r.success
       THEN [p EXCEPT
               !.targets[patch_id] = r.target,
               !.written[patch_id] = IF r.wrote THEN @ + 1 ELSE @,
               !.applied_patches = applied,
               !.file = save_applied_patches(p.file, applied, saved)]
       ELSE p

InitPatcher ==
    /\ LoopIdle
    /\ disk = EmptyDisk
    /\ pc = "patcher"
    /\ failure_predictor = None
    /\ anomaly_detector = None
    /\ scaler = None
    /\ q_table = EmptyQ
    /\ epsilon = 10
    /\ metrics_history = <<>>
    /\ n_updates = 0
    /\ \E targets \in [PatchSet -> {"missing", "original"}] :
         call = [fn |-> "patcher", applied_patches |-> {}, file |-> Absent,
                 targets |-> targets, written |-> [id \in PatchSet |-> 0],
                 at |-> 1, cycles |-> 0, restarts |-> 0]

PatcherLeaves ==
    UNCHANGED <<pc, failure_predictor, anomaly_detector, scaler, q_table,
                epsilon, metrics_history, n_updates, loopVars>>

\* check_and_patch for the next patch of self.patches: skipped when its id
\* is in applied_patches, applied when its condition holds
CheckAndPatch ==
    /\ pc = "patcher"
    /\ call.cycles < MaxTicks
    /\ \E condition \in BOOLEAN, outcome \in PatchOutcomes,
          saved \in SaveOutcomes :
         LET patch_id == PatchIds[call.at]
             p == IF patch_id \in call.applied_patches \/ ~condition
                  THEN call
                  ELSE apply_patch(call, patch_id, outcome, saved)
             last == call.at = Len(PatchIds)
         IN call' = [p EXCEPT !.at = IF last THEN 1 ELSE @ + 1,
                              !.cycles = IF last THEN @ + 1 ELSE @]
    /\ PatcherLeaves

\* the process is started again: __init__ loads applied_patches from the file
PatcherRestart ==
    /\ pc = "patcher"
    /\ call.restarts < MaxFaults
    /\ call' = [call EXCEPT
                   !.applied_patches = load_applied_patches(call.file),
                   !.at = 1, !.restarts = @ + 1]
    /\ PatcherLeaves

NextPatcher == CheckAndPatch \/ PatcherRestart

SpecPatcher == InitPatcher /\ [][NextPatcher]_vars

\* every recorded patch id had its replacement written to its target file
RecordedAfterWrite ==
    \A patch_id \in PatchSet :
       patch_id \in call.applied_patches => call.written[patch_id] >= 1

\* no replacement was written a second time
NeverWrittenTwice ==
    \A patch_id \in PatchSet : call.written[patch_id] <= 1

\* C37: a patch id is in applied_patches only after its replacement was
\* written to its target file, and no patch is written a second time, in a
\* later check_and_patch cycle or after a restart that reloads the applied
\* set from its file.
C37_PatchAppliedOnce == RecordedAfterWrite /\ NeverWrittenTwice

-----------------------------------------------------------------------------
(* telegram_notifier.py: TelegramNotifier.check_log_files on one monitored
   log file that other processes append to. The record `call` holds the
   lines of the file, last_log_positions for it (in lines), sent_errors and
   the lines that have been passed to send_log_error so far. *)

\* at most MaxLines lines are written to the log file in one behaviour
MaxLines == 4

\* the lines a log file holds: "E" matches an error pattern, "P" matches
\* none, "T" is the first line of a traceback, "I" an indented line of one
LineKinds == {"E", "P", "T", "I"}

\* parse_log_errors: re.search of an error pattern in the line
is_error(line) == line \in {"E", "T"}

\* parse_log_errors: 'Traceback' in line
StartsTraceback(line) == line = "T"

\* parse_log_errors: line.strip() and not line.startswith(' ')
EndsTraceback(line) == line # "I"

\* parse_log_errors over lines[i..]: the groups of line numbers it passes to
\* send_log_error, in order; current_error is a local of the call and what
\* it holds when the loop ends is not passed on
RECURSIVE parse_log_errors(_, _, _, _, _)
parse_log_errors(lines, i, current_error, in_traceback, groups) ==
    IF i > Len(lines) THEN groups
    ELSE IF is_error(lines[i]) \/ in_traceback
        THEN LET cur == Append(current_error, i) IN
             IF StartsTraceback(lines[i])
                 THEN parse_log_errors(lines, i + 1, cur, TRUE, groups)
             ELSE IF in_traceback /\ EndsTraceback(lines[i])
                 THEN parse_log_errors(lines, i + 1, <<>>, FALSE,
                                       Append(groups, cur))
             ELSE parse_log_errors(lines, i + 1, cur, in_traceback, groups)
    ELSE IF current_error # <<>>
        THEN parse_log_errors(lines, i + 1, <<>>, in_traceback,
                              Append(groups, current_error))
    ELSE parse_log_errors(lines, i + 1, current_error, in_traceback, groups)

\* send_log_error: error_text = ''.join(error_lines)
ErrorText(lines, group) == [k \in DOMAIN group |-> lines[group[k]]]

\* send_log_error for the groups in order: an id already in sent_errors
\* returns early, a message that was sent adds its id
RECURSIVE send_log_errors(_, _, _, _, _)
send_log_errors(lines, groups, k, sent_errors, sends) ==
    IF k > Len(groups) THEN sent_errors
    ELSE LET error_id == ErrorText(lines, groups[k]) IN
         send_log_errors(lines, groups, k + 1,
                         IF error_id \notin sent_errors /\ sends
                             THEN sent_errors \cup {error_id}
                             ELSE sent_errors,
                         sends)

InitNotifier ==
    /\ LoopIdle
    /\ disk = EmptyDisk
    /\ pc = "notifier"
    /\ failure_predictor = None
    /\ anomaly_detector = None
    /\ scaler = None
    /\ q_table = EmptyQ
    /\ epsilon = 10
    /\ metrics_history = <<>>
    /\ n_updates = 0
    /\ call = [fn |-> "notifier", log |-> <<>>, last_pos |-> 0,
               sent_errors |-> {}, passed |-> {}]

NotifierLeaves ==
    UNCHANGED <<pc, failure_predictor, anomaly_detector, scaler, q_table,
                epsilon, metrics_history, n_updates, loopVars>>

\* a monitored process writes a line to its log file
LogLineWritten ==
    /\ pc = "notifier"
    /\ Len(call.log) < MaxLines
    /\ \E line \in LineKinds : call' = [call EXCEPT !.log = Append(@, line)]
    /\ NotifierLeaves

\* check_log_files for the file: read the lines after last_pos, move
\* last_pos to the end, parse_log_errors on the new lines
CheckLogFiles ==
    /\ pc = "notifier"
    /\ \E sends \in BOOLEAN :
         LET new_lines == SubSeq(call.log, call.last_pos + 1, Len(call.log))
             groups == parse_log_errors(new_lines, 1, <<>>, FALSE, <<>>)
             numbers == UNION {{call.last_pos + groups[k][j] :
                                   j \in DOMAIN groups[k]} : k \in DOMAIN groups}
         IN call' = [call EXCEPT
                        !.last_pos = Len(call.log),
                        !.passed = @ \cup numbers,
                        !.sent_errors = send_log_errors(new_lines, groups, 1,
                                                        @, sends)]
    /\ NotifierLeaves

NextNotifier == LogLineWritten \/ CheckLogFiles

\* run is a `while True` loop: check_log_files is called again and again
SpecNotifier ==
    InitNotifier /\ [][NextNotifier]_vars /\ WF_vars(CheckLogFiles)

\* line number i of the log file matches an error pattern and has been read
ReadError(i) ==
    /\ i <= call.last_pos
    /\ is_error(call.log[i])

\* C38: every line read from the log file that matches an error pattern is
\* passed to send_log_error, in the check cycle that read it or a later one.
C38_ErrorLinesReachSender ==
    \A i \in 1..MaxLines : [](ReadError(i) => <>(i \in call.passed))

-----------------------------------------------------------------------------
(* telegram_notifier.py: split_message, called by send_message for a message
   longer than max_message_length. A message is the sequence of the lengths
   of its lines; a chunk is the numbers of the lines it holds and its length
   in characters. *)

\* self.max_message_length (4096) and the margin of 100 that split_message
\* keeps, scaled
max_message_length == 8
SplitMargin == 2

\* messages of up to MaxLines lines, each of up to max_message_length + 2
\* characters
LineLengths == 0..(max_message_length + 2)
Messages == UNION {[1..n -> LineLengths] : n \in 1..(MaxLines - 1)}

RECURSIVE SumLen(_, _)
SumLen(message, i) ==
    IF i > Len(message) THEN 0 ELSE message[i] + SumLen(message, i + 1)

\* len(message): the lines and the '\n' between them
MessageLength(message) == SumLen(message, 1) + Len(message) - 1

EmptyChunk == [lines |-> <<>>, len |-> 0]

\* current_chunk = line + '\n' and current_chunk += line + '\n'
ChunkOf(i, line) == [lines |-> <<i>>, len |-> line + 1]
ChunkPlus(chunk, i, line) ==
    [lines |-> Append(chunk.lines, i), len |-> chunk.len + line + 1]

\* split_message over the lines from number i on
RECURSIVE split_from(_, _, _, _)
split_from(message, i, current_chunk, chunks) ==
    IF i > Len(message)
        THEN (IF current_chunk.len > 0 THEN Append(chunks, current_chunk)
              ELSE chunks)
    ELSE IF current_chunk.len + message[i] + 1
                > max_message_length - SplitMargin
        THEN split_from(message, i + 1, ChunkOf(i, message[i]),
                        Append(chunks, current_chunk))
    ELSE split_from(message, i + 1, ChunkPlus(current_chunk, i, message[i]),
                    chunks)

split_message(message) == split_from(message, 1, EmptyChunk, <<>>)

InitSplit ==
    /\ LoopIdle
    /\ disk = EmptyDisk
    /\ pc = "split"
    /\ failure_predictor = None
    /\ anomaly_detector = None
    /\ scaler = None
    /\ q_table = EmptyQ
    /\ epsilon = 10
    /\ metrics_history = <<>>
    /\ n_updates = 0
    /\ \E message \in Messages :
         call = [fn |-> "send_message", message |-> message]

\* send_message: a message longer than max_message_length is split, any
\* other is sent as one chunk
SendMessage ==
    /\ pc = "split"
    /\ call.fn = "send_message"
    /\ pc' = "sent"
    /\ call' = IF MessageLength(call.message) > max_message_length
               THEN [fn |-> "split_message", message |-> call.message,
                     chunks |-> split_message(call.message)]
               ELSE [fn |-> "_send_chunk", message |-> call.message]
    /\ UNCHANGED <<failure_predictor, anomaly_detector, scaler, q_table,
                   epsilon, metrics_history, n_updates, loopVars>>

NextSplit == SendMessage

SpecSplit == InitSplit /\ [][NextSplit]_vars

RECURSIVE LinesOf(_, _)
LinesOf(chunks, k) ==
    IF k > Len(chunks) THEN <<>> ELSE chunks[k].lines \o LinesOf(chunks, k + 1)

\* C39: for a message longer than max_message_length, every chunk of
\* split_message is non-empty and at most max_message_length characters
\* long, and the chunks hold, in order, every line of the message once.
C39_ChunksWithinLimit ==
    call.fn = "split_message" =>
        /\ \A k \in DOMAIN call.chunks :
              /\ call.chunks[k].len > 0
              /\ call.chunks[k].len <= max_message_length
        /\ LinesOf(call.chunks, 1) = [i \in 1..Len(call.message) |-> i]

====
